---- MODULE Spec2Model ----
(***************************************************************************)
(* State-machine model of the LearnFire arena shooter: the enhanced build  *)
(* (src/unnamed/part_001 with src/src/adManager.js) and the basic build    *)
(* (src/unnamed/part_000).                                                 *)
(*                                                                         *)
(* Time is counted in tenths of a second (1.5 s = 15, 0.2 s = 2), so that  *)
(* every timer of the program is an integer.  Math.random() is an input:   *)
(* each use of Math.floor(Math.random() * n) is a draw from 0 .. n-1.      *)
(* Geometry (ray casting, distances) is an input of the handler that       *)
(* evaluates it: which enemy the ray strikes, which enemies are within     *)
(* attack range of the player, which pickups are within reach.             *)
(***************************************************************************)
EXTENDS Integers, Sequences, FiniteSets, TLC

VARIABLES
  build,                \* "enhanced" (part_001) or "basic" (part_000)
  gameState,            \* the gameState object
  robots,               \* the active enemy list, in spawn order
  pickups,              \* the active HealthPickup list
  spawnTimer,           \* tenths of a second since the last spawn
  spawnInterval,        \* tenths of a second between spawns
  adSession,            \* adManager's session counters
  extraLifeOfferShown,  \* the extra-life offer flag
  timers,               \* pending setTimeout callbacks, in creation order
  ui,                   \* which screens, modals and buttons are shown
  lastFrame,            \* what the most recent animate() call did (history)
  camera,               \* camera.position on the ground plane (the player)
  particles,            \* the ExplosionParticle list, as the set of its entries
  bullets,              \* the BulletTrail list, as the set of its entries
  enemy,                \* group.position of one enemy, <<>> before it exists
  adCalls,              \* the callbacks the latest ad request has run (history)
  generator,            \* the locals of a generate() call that is in its decoy loop
  physics               \* playerY, velocityY and isGrounded

vars == <<build, gameState, robots, pickups, spawnTimer, spawnInterval,
          adSession, extraLifeOfferShown, timers, ui, lastFrame,
          camera, particles, bullets, enemy, adCalls, generator, physics>>

-----------------------------------------------------------------------------
(* Bounds of the model.                                                    *)

\* Most enemies in the active list at once.
MaxRobots == 2

\* Most kills in one session of the gameplay specification.
MaxKills == 5

\* Most pickups in the active list at once.
MaxPickups == 1

\* Most setTimeout callbacks pending at once.
MaxTimers == 1

\* Most enemies in the active list and most kills in one session of the
\* specification with deaths and ads.
AdsRobots == 3

AdsKills == 6

\* Most kills in one session of the restart specification.
ResetKills == 1

\* Most kills in one session of the combo specification.
ComboKills == 11

\* Most kills in one session of the long-session specification.
LongKills == 40

-----------------------------------------------------------------------------
(* Program constants, in the model's units.                                *)

\* gameState.maxHealth of the enhanced build.
MaxHealthEnhanced == 100

\* gameState.maxHealth of the basic build.
MaxHealthBasic == 150

\* spawnInterval = 2 (seconds) at startGame.
InitialSpawnInterval == 20

\* spawnInterval - 0.2 at each wave advance.
SpawnIntervalStep == 2

\* Math.max(0.6, ...) in the enhanced build.
SpawnFloorEnhanced == 6

\* Math.max(0.8, ...) in the basic build.
SpawnFloorBasic == 8

\* this.attackCooldown = 1.5
AttackCooldown == 15

\* if (this.dyingTimer > 1)
DyingLimit == 10

\* Math.min(gameState.combo + 1, 10)
MaxCombo == 10

\* const points = 100 * gameState.combo
PointsPerCombo == 100

\* if (gameState.kills % 5 === 0)
KillsPerWave == 5

\* const healAmount = 20 (wave completion bonus)
WaveHeal == 20

\* gameState.health + 20 (pickup collection)
PickupHeal == 20

\* const healAmount = 50 (extra life)
ExtraLifeHeal == 50

Min(a, b) == IF a < b THEN a ELSE b

Max(a, b) == IF a > b THEN a ELSE b

\* Math.floor(Math.random() * n)
RandomInt(n) == 0 .. (n - 1)

-----------------------------------------------------------------------------
(* Question pools of QuizGenerator and EnglishGenerator ("deg" stands for  *)
(* the degree sign of the source strings).                                 *)

QuizEasy ==
  << [q |-> "Capital of France?", a |-> "Paris", w |-> <<"London", "Berlin">>],
     [q |-> "H2O is?", a |-> "Water", w |-> <<"Iron", "Gold">>],
     [q |-> "Red Planet?", a |-> "Mars", w |-> <<"Venus", "Jupiter">>],
     [q |-> "Largest Ocean?", a |-> "Pacific", w |-> <<"Atlantic", "Indian">>],
     [q |-> "Fastest Animal?", a |-> "Cheetah", w |-> <<"Lion", "Horse">>],
     [q |-> "Is the sun a star?", a |-> "Yes", w |-> <<"No", "Maybe">>],
     [q |-> "King of Jungle?", a |-> "Lion", w |-> <<"Tiger", "Bear">>],
     [q |-> "Color of Emerald?", a |-> "Green", w |-> <<"Red", "Blue">>],
     [q |-> "Opposite of Cold?", a |-> "Hot", w |-> <<"Warm", "Cool">>],
     [q |-> "Freezing point of water?", a |-> "0degC", w |-> <<"-10degC", "10degC">>],
     [q |-> "Color of banana?", a |-> "Yellow", w |-> <<"Green", "Red">>],
     [q |-> "Bat is a bird?", a |-> "No", w |-> <<"Yes", "Maybe">>],
     [q |-> "A shape with 3 sides?", a |-> "Triangle", w |-> <<"Square", "Circle">>],
     [q |-> "Ice is?", a |-> "Frozen Water", w |-> <<"Gas", "Steam">>],
     [q |-> "Number of fingers?", a |-> "5", w |-> <<"4", "6">>] >>

QuizMedium ==
  << [q |-> "Capital of Japan?", a |-> "Tokyo", w |-> <<"Kyoto", "Osaka">>],
     [q |-> "Hardest material?", a |-> "Diamond", w |-> <<"Steel", "Iron">>],
     [q |-> "3.14 is?", a |-> "Pi", w |-> <<"Phi", "E">>],
     [q |-> "Smallest planet?", a |-> "Mercury", w |-> <<"Mars", "Pluto">>],
     [q |-> "Number of continents?", a |-> "7", w |-> <<"5", "6">>],
     [q |-> "Identify: Verb", a |-> "Run", w |-> <<"Blue", "Sky">>],
     [q |-> "Capital of USA?", a |-> "Washington D.C.", w |-> <<"New York", "Chicago">>],
     [q |-> "Currency of UK?", a |-> "Pound", w |-> <<"Euro", "Dollar">>],
     [q |-> "Symbol for Gold?", a |-> "Au", w |-> <<"Ag", "Fe">>],
     [q |-> "Programming language?", a |-> "JavaScript", w |-> <<"HTML", "CSS">>],
     [q |-> "Planet with rings?", a |-> "Saturn", w |-> <<"Mars", "Venus">>],
     [q |-> "Largest desert?", a |-> "Antarctica", w |-> <<"Sahara", "Gobi">>],
     [q |-> "Closest star?", a |-> "Sun", w |-> <<"Proxima", "Sirius">>],
     [q |-> "Spider legs count?", a |-> "8", w |-> <<"6", "10">>],
     [q |-> "Capital of Spain?", a |-> "Madrid", w |-> <<"Barcelona", "Seville">>] >>

QuizHard ==
  << [q |-> "CPU stands for?", a |-> "Central Processing Unit", w |-> <<"Computer Personal Unit", "Central Power Unit">>],
     [q |-> "Boiling point of water?", a |-> "100degC", w |-> <<"90degC", "120degC">>],
     [q |-> "Speed of light used in?", a |-> "Optics", w |-> <<"Acoustics", "Mechanics">>],
     [q |-> "Who painted Mona Lisa?", a |-> "Da Vinci", w |-> <<"Picasso", "Van Gogh">>],
     [q |-> "Force that pulls down?", a |-> "Gravity", w |-> <<"Magnetism", "Friction">>],
     [q |-> "Largest mammal?", a |-> "Blue Whale", w |-> <<"Elephant", "Giraffe">>],
     [q |-> "Square root of 64?", a |-> "8", w |-> <<"6", "12">>],
     [q |-> "Author of Harry Potter?", a |-> "J.K. Rowling", w |-> <<"Tolkien", "Martin">>],
     [q |-> "Which gas do we breath?", a |-> "Oxygen", w |-> <<"Helium", "Nitrogen">>],
     [q |-> "Fastest bird?", a |-> "Peregrine Falcon", w |-> <<"Eagle", "Hawk">>],
     [q |-> "Tallest mountain?", a |-> "Everest", w |-> <<"K2", "Kilimanjaro">>],
     [q |-> "Capital of Italy?", a |-> "Rome", w |-> <<"Milan", "Venice">>],
     [q |-> "Number of bones in ear?", a |-> "3", w |-> <<"2", "4">>],
     [q |-> "Where are pyramids?", a |-> "Egypt", w |-> <<"Mexico", "Peru">>],
     [q |-> "Symbol for Iron?", a |-> "Fe", w |-> <<"Ir", "In">>],
     [q |-> "Primary colors?", a |-> "R, G, B", w |-> <<"O, P, G", "B, W, G">>],
     [q |-> "Start of WWI?", a |-> "1914", w |-> <<"1918", "1939">>],
     [q |-> "Inventor of Phone?", a |-> "Bell", w |-> <<"Edison", "Tesla">>],
     [q |-> "Most spoken language?", a |-> "English", w |-> <<"Spanish", "Mandarin">>],
     [q |-> "Frozen water is?", a |-> "Ice", w |-> <<"Steam", "Liquid">>],
     [q |-> "Value of a dozen?", a |-> "12", w |-> <<"10", "6">>],
     [q |-> "Humans breathe out?", a |-> "CO2", w |-> <<"Oxygen", "Nitrogen">>],
     [q |-> "Capital of China?", a |-> "Beijing", w |-> <<"Shanghai", "Hong Kong">>] >>

EnglishEasy ==
  << [q |-> "Opposite of HOT?", a |-> "Cold", w |-> <<"Warm", "Soft">>],
     [q |-> "Synonym of HAPPY?", a |-> "Joyful", w |-> <<"Sad", "Angry">>],
     [q |-> "Past tense of RUN?", a |-> "Ran", w |-> <<"Runned", "Running">>],
     [q |-> "Opposite of BIG?", a |-> "Small", w |-> <<"Huge", "Tall">>],
     [q |-> "Synonym of FAST?", a |-> "Quick", w |-> <<"Slow", "Lazy">>],
     [q |-> "Rhymes with CAT?", a |-> "Hat", w |-> <<"Dog", "Fish">>],
     [q |-> "Which is a noun?", a |-> "Apple", w |-> <<"Eat", "Red">>],
     [q |-> "Opposite of DAY?", a |-> "Night", w |-> <<"Sun", "Moon">>],
     [q |-> "Homophone of SEA?", a |-> "See", w |-> <<"Say", "Saw">>],
     [q |-> "Past tense of EAT?", a |-> "Ate", w |-> <<"Eated", "Eating">>],
     [q |-> "Plural of MAN?", a |-> "Men", w |-> <<"Mans", "Mens">>],
     [q |-> "Color of Sky?", a |-> "Blue", w |-> <<"Green", "Red">>],
     [q |-> "Antonym of UP?", a |-> "Down", w |-> <<"Left", "Right">>] >>

EnglishMedium ==
  << [q |-> "Plural of CHILD?", a |-> "Children", w |-> <<"Childs", "Childrens">>],
     [q |-> "Which is a verb?", a |-> "Jump", w |-> <<"Blue", "Table">>],
     [q |-> "Plural of MOUSE?", a |-> "Mice", w |-> <<"Mouses", "Mees">>],
     [q |-> "Which is an adjective?", a |-> "Fast", w |-> <<"Car", "Drive">>],
     [q |-> "Opposite of TRUE?", a |-> "False", w |-> <<"Right", "Correct">>],
     [q |-> "Antonym of RICH?", a |-> "Poor", w |-> <<"Wealthy", "Gold">>],
     [q |-> "Past tense of GO?", a |-> "Went", w |-> <<"Goed", "Going">>],
     [q |-> "Plural of TOOTH?", a |-> "Teeth", w |-> <<"Tooths", "Teethes">>],
     [q |-> "Rhymes with MOON?", a |-> "Spoon", w |-> <<"Sun", "Star">>],
     [q |-> "Which is a Pronoun?", a |-> "He", w |-> <<"Run", "Boy">>],
     [q |-> "Past tense of SEE?", a |-> "Saw", w |-> <<"Seen", "Seed">>],
     [q |-> "Plural of FOOT?", a |-> "Feet", w |-> <<"Foots", "Feets">>],
     [q |-> "Homophone of TWO?", a |-> "Too", w |-> <<"To", "Tow">>] >>

EnglishHard ==
  << [q |-> "Synonym of SMART?", a |-> "Clever", w |-> <<"Dumb", "Slow">>],
     [q |-> "Synonym of ANGRY?", a |-> "Mad", w |-> <<"Calm", "Happy">>],
     [q |-> "Antonym of NEAR?", a |-> "Far", w |-> <<"Close", "Here">>],
     [q |-> "Synonym of BEGIN?", a |-> "Start", w |-> <<"End", "Finish">>],
     [q |-> "Antonym of HARD?", a |-> "Soft", w |-> <<"Easy", "Solid">>],
     [q |-> "Past tense of DO?", a |-> "Did", w |-> <<"Done", "Doed">>],
     [q |-> "Rhymes with SKY?", a |-> "Fly", w |-> <<"Blue", "Bird">>],
     [q |-> "Which is an Adverb?", a |-> "Slowly", w |-> <<"Fast", "Run">>],
     [q |-> "Synonym of BIG?", a |-> "Large", w |-> <<"Tiny", "Small">>],
     [q |-> "Antonym of LOVE?", a |-> "Hate", w |-> <<"Like", "Friend">>],
     [q |-> "Past tense of BUY?", a |-> "Bought", w |-> <<"Buyed", "Bring">>],
     [q |-> "Plural of GOOSE?", a |-> "Geese", w |-> <<"Gooses", "Geeses">>],
     [q |-> "Homophone of PAIR?", a |-> "Pear", w |-> <<"Pare", "Peel">>],
     [q |-> "Synonym of SCARED?", a |-> "Afraid", w |-> <<"Brave", "Bold">>],
     [q |-> "Past tense of COME?", a |-> "Came", w |-> <<"Comed", "Coming">>],
     [q |-> "Plural of WOMAN?", a |-> "Women", w |-> <<"Womans", "Womens">>],
     [q |-> "Rhymes with LIGHT?", a |-> "Bright", w |-> <<"Dark", "Sun">>],
     [q |-> "Which is a Preposition?", a |-> "Under", w |-> <<"Cat", "Jump">>],
     [q |-> "Synonym of TIRED?", a |-> "Sleepy", w |-> <<"Awake", "Walk">>],
     [q |-> "Antonym of RIGHT?", a |-> "Wrong", w |-> <<"Left", "Correct">>] >>

-----------------------------------------------------------------------------
(* MathGenerator.generate                                                  *)

\* Operations with multiplication, division and squaring unlocked one
\* wave early.
OperationsEarly(wave) ==
  IF wave >= 9 THEN <<"+", "-", "x", "/", "sq">>
  ELSE IF wave >= 5 THEN <<"+", "-", "x", "/">>
  ELSE IF wave >= 2 THEN <<"+", "-", "x">>
  ELSE <<"+">>

\* The operations unlocked at a wave ("x" multiplication, "/" division,
\* "sq" squaring).
Operations(wave) ==
  IF wave >= 10 THEN <<"+", "-", "x", "/", "sq">>
  ELSE IF wave >= 6 THEN <<"+", "-", "x", "/">>
  ELSE IF wave >= 3 THEN <<"+", "-", "x">>
  ELSE IF wave >= 2 THEN <<"+", "-">>
  ELSE <<"+">>

\* maxNum at a wave.
MaxNum(wave) ==
  IF wave >= 10 THEN 100
  ELSE IF wave >= 6 THEN 50
  ELSE IF wave >= 3 THEN 30
  ELSE IF wave >= 2 THEN 20
  ELSE 10

\* const multMax = Math.min(15, Math.ceil(maxNum / 2))
MultMax(maxNum) == Min(15, (maxNum + 1) \div 2)

\* The draws Math.floor(Math.random() * n) of the first and of the second
\* random operand of an operation (the second of "-" depends on a).
FirstDraws(op, maxNum) ==
  CASE op = "+" -> RandomInt(maxNum)
    [] op = "-" -> RandomInt(maxNum)
    [] op = "x" -> RandomInt(MultMax(maxNum))
    [] op = "/" -> RandomInt(12)
    [] op = "sq" -> RandomInt(15)

SecondDraws(op, maxNum, r1) ==
  CASE op = "+" -> RandomInt(maxNum)
    [] op = "-" -> RandomInt(r1 + 10)
    [] op = "x" -> RandomInt(10)
    [] op = "/" -> RandomInt(12)
    [] op = "sq" -> {0}

\* The switch with a division whose operands are drawn on their own and
\* whose answer is Math.floor(a / b).
MathOperandsFloor(op, r1, r2) ==
  CASE op = "+" -> [a |-> r1 + 1, b |-> r2 + 1, answer |-> (r1 + 1) + (r2 + 1)]
    [] op = "-" -> [a |-> r1 + 10, b |-> r2, answer |-> (r1 + 10) - r2]
    [] op = "x" -> [a |-> r1 + 2, b |-> r2 + 2, answer |-> (r1 + 2) * (r2 + 2)]
    [] op = "/" -> [a |-> r2 + 14, b |-> r1 + 2, answer |-> (r2 + 14) \div (r1 + 2)]
    [] op = "sq" -> [a |-> r1 + 2, b |-> 2, answer |-> (r1 + 2) * (r1 + 2)]

\* The switch over the operation: a, b and answer from the two draws.
MathOperands(op, r1, r2) ==
  CASE op = "+" -> [a |-> r1 + 1, b |-> r2 + 1, answer |-> (r1 + 1) + (r2 + 1)]
    [] op = "-" -> [a |-> r1 + 10, b |-> r2, answer |-> (r1 + 10) - r2]
    [] op = "x" -> [a |-> r1 + 2, b |-> r2 + 2, answer |-> (r1 + 2) * (r2 + 2)]
    [] op = "/" -> [a |-> (r1 + 2) * (r2 + 2), b |-> r1 + 2, answer |-> r2 + 2]
    [] op = "sq" -> [a |-> r1 + 2, b |-> 2, answer |-> (r1 + 2) * (r1 + 2)]

\* PushWrong without the test !wrongAnswers.includes(wrong).
PushWrongRepeat(wrongAnswers, answer, k, up) ==
  LET offset == k - 5
      wrong == answer + (IF offset = 0 THEN (IF up THEN 1 ELSE -1) ELSE offset)
  IN  IF wrong # answer /\ wrong > 0
      THEN Append(wrongAnswers, wrong)
      ELSE wrongAnswers

\* PushWrong whose candidates all lie below the answer.
PushWrongDown(wrongAnswers, answer, k, up) ==
  LET offset == k - 5
      wrong == answer - (IF offset = 0 THEN 1 ELSE IF offset < 0 THEN -offset ELSE offset)
  IN  IF /\ wrong # answer
         /\ wrong > 0
         /\ \A i \in 1 .. Len(wrongAnswers) : wrongAnswers[i] # wrong
      THEN Append(wrongAnswers, wrong)
      ELSE wrongAnswers

\* One iteration of the decoy loop: k is Math.floor(Math.random() * 10) and
\* up is (Math.random() > 0.5), read only when the offset is 0.
PushWrong(wrongAnswers, answer, k, up) ==
  LET offset == k - 5
      wrong == answer + (IF offset = 0 THEN (IF up THEN 1 ELSE -1) ELSE offset)
  IN  IF /\ wrong # answer
         /\ wrong > 0
         /\ \A i \in 1 .. Len(wrongAnswers) : wrongAnswers[i] # wrong
      THEN Append(wrongAnswers, wrong)
      ELSE wrongAnswers

\* while (wrongAnswers.length < 2) over a finite sequence of draws [k, up];
\* the loop has ended iff the result holds two values.
RECURSIVE WrongAnswersLoop(_, _, _)
WrongAnswersLoop(wrongAnswers, answer, draws) ==
  IF Len(wrongAnswers) >= 2 \/ draws = <<>>
  THEN wrongAnswers
  ELSE WrongAnswersLoop(PushWrong(wrongAnswers, answer, Head(draws).k, Head(draws).up),
                        answer, Tail(draws))

\* MathGenerator.generate for the draws d: the question, the answer and the
\* wrong answers.
MathGenerate(wave, d) ==
  LET op == Operations(wave)[d.op + 1]
      o == MathOperands(op, d.r1, d.r2)
  IN  [question |-> <<o.a, op, o.b>>,
       answer |-> o.answer,
       wrongAnswers |-> WrongAnswersLoop(<<>>, o.answer, d.decoys)]

\* The draws MathGenerator.generate can make at a wave.
MathDrawOk(wave, d) ==
  /\ d.op \in RandomInt(Len(Operations(wave)))
  /\ d.r1 \in FirstDraws(Operations(wave)[d.op + 1], MaxNum(wave))
  /\ d.r2 \in SecondDraws(Operations(wave)[d.op + 1], MaxNum(wave), d.r1)
  /\ \A i \in 1 .. Len(d.decoys) : d.decoys[i].k \in RandomInt(10)

\* generator while no generate() call is in its decoy loop, when a call
\* enters the loop (const wrongAnswers = []), and when the loop is left.
NoCall == [pc |-> "none", answer |-> 0, wrongAnswers |-> <<>>]

EnterLoop(answer) == [pc |-> "loop", answer |-> answer, wrongAnswers |-> <<>>]

LeaveLoop(g) == [g EXCEPT !.pc = "done"]

\* The answers generate() can reach the decoy loop with at a wave, and
\* those of generateMathQuestion of the basic build.
MathAnswers(wave) ==
  UNION {UNION {{MathOperands(Operations(wave)[k], r1, r2).answer :
                   r2 \in SecondDraws(Operations(wave)[k], MaxNum(wave), r1)} :
                r1 \in FirstDraws(Operations(wave)[k], MaxNum(wave))} :
         k \in 1 .. Len(Operations(wave))}

-----------------------------------------------------------------------------
(* QuizGenerator.generate and EnglishGenerator.generate                    *)

\* The cumulative pool of a wave.
QuizPool(wave) ==
  QuizEasy \o (IF wave >= 4 THEN QuizMedium ELSE <<>>)
           \o (IF wave >= 8 THEN QuizHard ELSE <<>>)

EnglishPool(wave) ==
  EnglishEasy \o (IF wave >= 4 THEN EnglishMedium ELSE <<>>)
              \o (IF wave >= 8 THEN EnglishHard ELSE <<>>)

\* generate for the pool draw d.q = Math.floor(Math.random() * pool.length).
PoolGenerate(pool, d) ==
  LET qData == pool[d.q + 1]
  IN  [question |-> qData.q, answer |-> qData.a, wrongAnswers |-> qData.w]

-----------------------------------------------------------------------------
(* Robot                                                                   *)

\* Robot.generateQuestion: the generator of the mode.
GenerateResult(mode, wave, d) ==
  IF mode = "quiz" THEN PoolGenerate(QuizPool(wave), d)
  ELSE IF mode = "english" THEN PoolGenerate(EnglishPool(wave), d)
  ELSE MathGenerate(wave, d)

\* Swap with the second assignment lost.
SwapLossy(s, i, j) == [s EXCEPT ![i] = s[j]]

\* The Fisher-Yates shuffle of the three answers: j2 and j1 are the draws
\* Math.floor(Math.random() * (i + 1)) for i = 2 and i = 1.
Swap(s, i, j) == [s EXCEPT ![i] = s[j], ![j] = s[i]]

Shuffle(allAnswers, j2, j1) == Swap(Swap(allAnswers, 3, j2 + 1), 2, j1 + 1)

\* this.answers = { head, chest, knee }
ZoneAnswers(allAnswers) ==
  [head |-> allAnswers[1], chest |-> allAnswers[2], knee |-> allAnswers[3]]

\* The type pool of a wave (enhanced build) and the fixed one (basic build).
TypePool(wave) ==
  IF wave >= 3 /\ wave <= 5
  THEN <<"normal", "normal", "normal", "normal", "normal", "normal", "normal",
         "fast", "fast", "fast">>
  ELSE IF wave >= 6 /\ wave <= 9
  THEN <<"normal", "normal", "normal", "normal", "normal",
         "fast", "fast", "fast", "heavy", "heavy">>
  ELSE IF wave >= 10
  THEN <<"normal", "normal", "normal", "normal",
         "fast", "fast", "fast", "fast", "heavy", "heavy">>
  ELSE <<"normal">>

\* this.damage by type.
Damage(type) ==
  CASE type = "fast" -> 10
    [] type = "heavy" -> 25
    [] OTHER -> 12

\* The draws the question of a new enemy can make.
QuestionDrawOk(mode, wave, d) ==
  /\ d.j2 \in RandomInt(3)
  /\ d.j1 \in RandomInt(2)
  /\ IF mode = "quiz" THEN d.q \in RandomInt(Len(QuizPool(wave)))
     ELSE IF mode = "english" THEN d.q \in RandomInt(Len(EnglishPool(wave)))
     ELSE /\ MathDrawOk(wave, d)
          /\ Len(MathGenerate(wave, d).wrongAnswers) = 2

\* new Robot() of the enhanced build: its gameplay fields.  sinceAttack is
\* not a field of the program: it holds the deltaTime this enemy's update
\* has gone through since its last attack, up to AttackCooldown (its value
\* for an enemy that has not attacked).
Robot(mode, wave, d) ==
  LET result == GenerateResult(mode, wave, d)
      allAnswers == Shuffle(<<result.answer>> \o result.wrongAnswers, d.j2, d.j1)
      type == TypePool(wave)[d.type + 1]
  IN  [type |-> type,
       damage |-> Damage(type),
       question |-> result.question,
       correctAnswer |-> result.answer,
       answers |-> ZoneAnswers(allAnswers),
       alive |-> TRUE,
       dying |-> FALSE,
       dyingTimer |-> 0,
       attackCooldown |-> 0,
       sinceAttack |-> AttackCooldown]

RobotDrawOk(mode, wave, d) ==
  /\ d.type \in RandomInt(Len(TypePool(wave)))
  /\ QuestionDrawOk(mode, wave, d)

\* The basic build: types = ['normal', 'fast', 'heavy'] at every wave.
TypePoolBasic == <<"normal", "fast", "heavy">>

\* generateMathQuestion of the basic build: fixed operations and ranges.
OperationsBasic == <<"+", "-", "x">>

FirstDrawsBasic(op) ==
  CASE op = "+" -> RandomInt(20)
    [] op = "-" -> RandomInt(30)
    [] op = "x" -> RandomInt(12)

SecondDrawsBasic(op, r1) ==
  CASE op = "+" -> RandomInt(20)
    [] op = "-" -> RandomInt(r1 + 10)
    [] op = "x" -> RandomInt(12)

MathOperandsBasic(op, r1, r2) ==
  CASE op = "+" -> [a |-> r1 + 1, b |-> r2 + 1, answer |-> (r1 + 1) + (r2 + 1)]
    [] op = "-" -> [a |-> r1 + 10, b |-> r2, answer |-> (r1 + 10) - r2]
    [] op = "x" -> [a |-> r1 + 1, b |-> r2 + 1, answer |-> (r1 + 1) * (r2 + 1)]

MathAnswersBasic ==
  UNION {UNION {{MathOperandsBasic(OperationsBasic[k], r1, r2).answer :
                   r2 \in SecondDrawsBasic(OperationsBasic[k], r1)} :
                r1 \in FirstDrawsBasic(OperationsBasic[k])} :
         k \in 1 .. Len(OperationsBasic)}

\* new Robot() of the basic build.
RobotBasic(d) ==
  LET op == OperationsBasic[d.op + 1]
      o == MathOperandsBasic(op, d.r1, d.r2)
      wrongAnswers == WrongAnswersLoop(<<>>, o.answer, d.decoys)
      allAnswers == Shuffle(<<o.answer>> \o wrongAnswers, d.j2, d.j1)
      type == TypePoolBasic[d.type + 1]
  IN  [type |-> type,
       damage |-> Damage(type),
       question |-> <<o.a, op, o.b>>,
       correctAnswer |-> o.answer,
       answers |-> ZoneAnswers(allAnswers),
       alive |-> TRUE,
       dying |-> FALSE,
       dyingTimer |-> 0,
       attackCooldown |-> 0,
       sinceAttack |-> AttackCooldown]

RobotBasicDrawOk(d) ==
  /\ d.type \in RandomInt(Len(TypePoolBasic))
  /\ d.op \in RandomInt(Len(OperationsBasic))
  /\ d.r1 \in FirstDrawsBasic(OperationsBasic[d.op + 1])
  /\ d.r2 \in SecondDrawsBasic(OperationsBasic[d.op + 1], d.r1)
  /\ \A i \in 1 .. Len(d.decoys) : d.decoys[i].k \in RandomInt(10)
  /\ d.j2 \in RandomInt(3)
  /\ d.j1 \in RandomInt(2)
  /\ Len(WrongAnswersLoop(<<>>, MathOperandsBasic(OperationsBasic[d.op + 1], d.r1, d.r2).answer,
                          d.decoys)) = 2

-----------------------------------------------------------------------------
(* Positions on the ground plane, in metres.  The enemies of the active    *)
(* list carry no position: what the handlers read of the geometry (ray     *)
(* hits, attack range, collection radius) is an input of theirs, and the   *)
(* statements that write a position are the operators below.  The arena    *)
(* specification follows the position of one enemy in the variable enemy.  *)

\* camera.position.set(0, 2, 0)
Origin == [x |-> 0, z |-> 0]

\* const boundaryLimit = 45 (enemies)
RobotBoundary == 45

\* const boundaryLimit = 35 (player)
PlayerBoundary == 35

\* clampPosition that leaves the position as it is.
clampNothing(position, boundaryLimit) == position

\* Math.max(-boundaryLimit, Math.min(boundaryLimit, v)) of x and of z.
clampPosition(position, boundaryLimit) ==
  [x |-> Max(-boundaryLimit, Min(boundaryLimit, position.x)),
   z |-> Max(-boundaryLimit, Min(boundaryLimit, position.z))]

\* position.add(v) on the ground plane.
AddVector(position, v) == [x |-> position.x + v.x, z |-> position.z + v.z]

\* The position of a new enemy, and of an enemy respawned after an attack:
\* the player's position plus offset (a direction times the spawn
\* distance), kept within the arena.
spawnPosition(player, offset) == clampPosition(AddVector(player, offset), RobotBoundary)

\* The position of enemy r after Robot.update: a dying enemy returns before
\* it moves; another one adds step (direction times speed * deltaTime) and
\* is kept within the arena.
updatePosition(r, position, step) ==
  IF r.dying THEN position
  ELSE clampPosition(AddVector(position, step), RobotBoundary)

\* The arena walls stand at x = -50, x = 50, z = -50 and z = 50.
ArenaWall == 50

\* The distance from position to the nearest arena wall.
WallMargin(position) ==
  ArenaWall - Max(Max(position.x, -position.x), Max(position.z, -position.z))

\* updatePlayerMovement with a boundary beyond the enemies' one.
updatePlayerMovementWide(position, movement) ==
  clampPosition(AddVector(position, movement), ArenaWall)

\* camera.position after updatePlayerMovement: movement is
\* (direction times currentSpeed * deltaTime), the zero vector with no key
\* pressed.
updatePlayerMovement(position, movement) ==
  clampPosition(AddVector(position, movement), PlayerBoundary)

\* The jump: playerY in units of 5 cm and velocityY in units of 0.5 m/s,
\* so that with deltaTime in tenths of a second gravity * deltaTime and
\* velocityY * deltaTime are integers.

\* const groundLevel = 2, and let playerY = 2
GroundLevel == 40

\* const gravity = -25
Gravity == -5

\* const jumpForce = 10
JumpForce == 20

\* playerY, velocityY and isGrounded as declared and as startGame sets them.
Grounded == [playerY |-> GroundLevel, velocityY |-> 0, isGrounded |-> TRUE]

\* The gravity step and the ground check of updatePlayerMovement.
updatePlayerY(p, deltaTime) ==
  LET velocityY == p.velocityY + Gravity * deltaTime
      playerY == p.playerY + velocityY * deltaTime
  IN  IF playerY <= GroundLevel THEN Grounded
      ELSE [p EXCEPT !.playerY = playerY, !.velocityY = velocityY]

-----------------------------------------------------------------------------
(* Explosion particles and bullet trails.  A list of them is modelled as   *)
(* the set of its entries: each entry is updated and filtered on its own.  *)
(* A bullet's life is in tenths of a second; a particle's life is in       *)
(* hundredths and its decay in tenths per second, so that decay *          *)
(* deltaTime is in hundredths.                                             *)

\* this.life = 0.2 of a BulletTrail
BulletLife == 2

\* this.life = 1 of an ExplosionParticle
ParticleLife == 100

\* this.decay = 1.5 + Math.random()
Decays == 15 .. 24

BulletTrail == [life |-> BulletLife]

ExplosionParticle(decay) == [life |-> ParticleLife, decay |-> decay]

\* particles.filter(p => p.update(deltaTime))
updateParticles(list, deltaTime) ==
  {[p EXCEPT !.life = @ - p.decay * deltaTime] :
     p \in {q \in list : q.life - q.decay * deltaTime > 0}}

\* bullets.filter(b => b.update(deltaTime))
updateBullets(list, deltaTime) ==
  {[b EXCEPT !.life = @ - deltaTime] : b \in {c \in list : c.life - deltaTime > 0}}

-----------------------------------------------------------------------------
(* The program state as one record, so that a handler and the functions it *)
(* calls are operators from state to state.                                *)

World ==
  [build |-> build, gs |-> gameState, robots |-> robots, pickups |-> pickups,
   spawnTimer |-> spawnTimer, spawnInterval |-> spawnInterval,
   ads |-> adSession, offer |-> extraLifeOfferShown, timers |-> timers,
   ui |-> ui, frame |-> lastFrame, camera |-> camera,
   particles |-> particles, bullets |-> bullets, calls |-> adCalls,
   physics |-> physics]

Commit(w) ==
  /\ build' = w.build
  /\ gameState' = w.gs
  /\ robots' = w.robots
  /\ pickups' = w.pickups
  /\ spawnTimer' = w.spawnTimer
  /\ spawnInterval' = w.spawnInterval
  /\ adSession' = w.ads
  /\ extraLifeOfferShown' = w.offer
  /\ timers' = w.timers
  /\ ui' = w.ui
  /\ lastFrame' = w.frame
  /\ camera' = w.camera
  /\ particles' = w.particles
  /\ bullets' = w.bullets
  /\ enemy' = enemy
  /\ adCalls' = w.calls
  /\ generator' = generator
  /\ physics' = w.physics

-----------------------------------------------------------------------------
(* adManager.js                                                            *)

\* AD_CONFIG.maxRevives
MaxRevives == 1

\* AD_CONFIG.maxExtraLives
MaxExtraLives == 1

\* AD_CONFIG.waveAdInterval
WaveAdInterval == 3

\* AD_CONFIG.reviveAdCount
ReviveAdCount == 2

\* resetSessionLimits
NewAdSession ==
  [revivesUsed |-> 0, extraLivesUsed |-> 0, adsWatched |-> 0, currentReviveAdCount |-> 0]

canShowAd(w, type) ==
  CASE type = "revive" -> w.ads.revivesUsed < MaxRevives
    [] type = "extraLife" -> w.ads.extraLivesUsed < MaxExtraLives
    [] type = "interstitial" -> TRUE
    [] OTHER -> FALSE

shouldShowWaveAd(waveNumber) ==
  waveNumber > 1 /\ waveNumber % WaveAdInterval = 0

\* AD_CONFIG.mockRewardedDuration, AD_CONFIG.mockInterstitialDuration and
\* the delay of setTimeout(() => attemptRevive(), 500), in tenths of a
\* second.
MockRewardedDuration == 30

MockInterstitialDuration == 20

RetryDelay == 5

Delay(kind) ==
  CASE kind = "rewarded" -> MockRewardedDuration
    [] kind = "interstitial" -> MockInterstitialDuration
    [] kind = "retry" -> RetryDelay

\* A callback handed to setTimeout: left is the time until it is to run.
Timer(kind, type) == [kind |-> kind, type |-> type, left |-> Delay(kind)]

\* adCalls before the first ad request, and when a request is made: kind
\* is "rewarded" or "interstitial", open says that the ad's timer is
\* pending, onComplete and onCancel count the calls of the two callbacks.
NoAdCalls == [kind |-> "none", type |-> "none", open |-> FALSE, onComplete |-> 0, onCancel |-> 0]

AdRequest(kind, type) ==
  [kind |-> kind, type |-> type, open |-> TRUE, onComplete |-> 0, onCancel |-> 0]

\* The onCancel callbacks of the game: attemptRevive's re-enables the
\* revive button, claimExtraLife's shows the extra-life button again.  A
\* request of another type is not the game's: its callbacks are counted
\* only.
onCancel(w, type) ==
  LET called == [w EXCEPT !.calls.onCancel = @ + 1]
  IN  CASE type = "revive" -> [called EXCEPT !.ui.reviveBtnDisabled = FALSE]
        [] type = "extraLife" -> [called EXCEPT !.ui.extraLifeBtnShow = TRUE]
        [] OTHER -> called

\* showRewardedAd: the mock ad's completion is a pending timer; a refused
\* request runs onCancel at once.
showRewardedAd(w, type) ==
  LET asked == [w EXCEPT !.calls = AdRequest("rewarded", type)]
  IN  IF ~canShowAd(w, type)
      THEN onCancel([asked EXCEPT !.calls.open = FALSE], type)
      ELSE [asked EXCEPT !.timers = Append(@, Timer("rewarded", type))]

\* showInterstitialAd: the mock ad's completion is a pending timer.
showInterstitialAd(w) ==
  [w EXCEPT !.calls = AdRequest("interstitial", "interstitial"),
            !.timers = Append(@, Timer("interstitial", "interstitial"))]

-----------------------------------------------------------------------------
(* Death, revive and extra life (enhanced build)                           *)

showFinalGameOver(w) ==
  [w EXCEPT !.gs.isRunning = FALSE,
            !.ui.reviveModal = FALSE,
            !.ui.gameoverScreen = TRUE]

\* showReviveModal without its test of canShowAd('revive').
showReviveModalAlways(w) ==
  [w EXCEPT !.gs.isRunning = FALSE,
            !.ui.reviveBtnDisabled = FALSE,
            !.ui.reviveModal = TRUE]

showReviveModal(w) ==
  IF ~canShowAd(w, "revive")
  THEN showFinalGameOver(w)
  ELSE [w EXCEPT !.gs.isRunning = FALSE,
                 !.ui.reviveBtnDisabled = FALSE,
                 !.ui.reviveModal = TRUE]

endGame(w) ==
  IF ~w.gs.isRunning THEN w
  ELSE showReviveModal([w EXCEPT !.gs.isRunning = FALSE])

\* endGame of the basic build.
endGameBasic(w) ==
  [w EXCEPT !.gs.isRunning = FALSE, !.ui.gameoverScreen = TRUE]

attemptRevive(w) ==
  showRewardedAd([w EXCEPT !.ui.reviveBtnDisabled = TRUE], "revive")

executeRevive(w) ==
  [w EXCEPT !.ui.reviveModal = FALSE,
            !.gs.health = (w.gs.maxHealth * 5) \div 10,
            !.gs.isRunning = TRUE]

claimExtraLife(w) ==
  showRewardedAd([w EXCEPT !.ui.extraLifeBtnShow = FALSE], "extraLife")

\* The onComplete callback claimExtraLife hands to showRewardedAd.
extraLifeGranted(w) ==
  [w EXCEPT !.gs.health = Min(w.gs.maxHealth, w.gs.health + ExtraLifeHeal),
            !.ui.extraLifeBtnHidden = TRUE,
            !.offer = FALSE]

checkExtraLifeOffer(w) ==
  IF /\ w.gs.health * 100 < 25 * w.gs.maxHealth
     /\ w.gs.health * 100 > 0
     /\ ~w.offer
     /\ canShowAd(w, "extraLife")
  THEN [w EXCEPT !.ui.extraLifeBtnHidden = FALSE,
                 !.ui.extraLifeBtnShow = TRUE,
                 !.offer = TRUE]
  ELSE w

-----------------------------------------------------------------------------
(* Robot.update and Robot.attackPlayer                                     *)

\* attackPlayer with the death check health < 0.
attackPlayerStrict(w, i) ==
  IF ~w.gs.isRunning THEN w
  ELSE LET hit == [w EXCEPT !.robots[i].attackCooldown = AttackCooldown,
                            !.robots[i].sinceAttack = 0,
                            !.gs.health = @ - w.robots[i].damage]
           offered == checkExtraLifeOffer(hit)
       IN  IF offered.gs.health < 0 THEN endGame(offered)
           ELSE [offered EXCEPT !.frame.respawns = @ + 1]

\* attackPlayer that respawns the enemy before the death check.
attackPlayerRespawnFirst(w, i) ==
  IF ~w.gs.isRunning THEN w
  ELSE LET hit == [w EXCEPT !.robots[i].attackCooldown = AttackCooldown,
                            !.robots[i].sinceAttack = 0,
                            !.gs.health = @ - w.robots[i].damage,
                            !.frame.respawns = @ + 1]
           offered == checkExtraLifeOffer(hit)
       IN  IF offered.gs.health <= 0 THEN endGame(offered) ELSE offered

\* attackPlayer of the enhanced build.  The respawn that follows the death
\* check writes the enemy's position (spawnPosition); lastFrame counts the
\* respawns of the frame.
attackPlayer(w, i) ==
  IF ~w.gs.isRunning THEN w
  ELSE LET hit == [w EXCEPT !.robots[i].attackCooldown = AttackCooldown,
                            !.robots[i].sinceAttack = 0,
                            !.gs.health = @ - w.robots[i].damage]
           offered == checkExtraLifeOffer(hit)
       IN  IF offered.gs.health <= 0 THEN endGame(offered)
           ELSE [offered EXCEPT !.frame.respawns = @ + 1]

\* attackPlayer of the basic build: no isRunning guard.
attackPlayerBasic(w, i) ==
  LET hit == [w EXCEPT !.robots[i].attackCooldown = AttackCooldown,
                       !.robots[i].sinceAttack = 0,
                       !.gs.health = @ - w.robots[i].damage,
                       !.frame.stoppedAttacks = @ + (IF w.gs.isRunning THEN 0 ELSE 1)]
  IN  IF hit.gs.health <= 0 THEN endGameBasic(hit)
      ELSE [hit EXCEPT !.frame.respawns = @ + 1]

\* update that attacks whenever the player is in range.
updateEager(w, i, deltaTime, inRange) ==
  LET r == w.robots[i]
      seen == [w EXCEPT !.frame.stoppedUpdates = @ + (IF w.gs.isRunning THEN 0 ELSE 1)]
  IN  IF r.dying
      THEN [seen EXCEPT !.robots[i].dyingTimer = r.dyingTimer + deltaTime,
                        !.robots[i].alive =
                            IF r.dyingTimer + deltaTime > DyingLimit THEN FALSE ELSE r.alive]
      ELSE LET cooldown == IF r.attackCooldown > 0
                           THEN r.attackCooldown - deltaTime
                           ELSE r.attackCooldown
               cooled == [seen EXCEPT !.robots[i].attackCooldown = cooldown,
                                      !.robots[i].sinceAttack =
                                          Min(AttackCooldown, @ + deltaTime),
                                      !.frame.playerPos = <<w.camera>>]
           IN  IF inRange
               THEN IF w.build = "basic"
                    THEN attackPlayerBasic(cooled, i)
                    ELSE attackPlayer(cooled, i)
               ELSE cooled

\* Robot.update(deltaTime) of robots[i]; inRange is
\* (distanceToPlayer < attackRange).  lastFrame counts the calls made after
\* the run has ended and holds the player position the call has read
\* (const playerPos).
update(w, i, deltaTime, inRange) ==
  LET r == w.robots[i]
      seen == [w EXCEPT !.frame.stoppedUpdates = @ + (IF w.gs.isRunning THEN 0 ELSE 1)]
  IN  IF r.dying
      THEN [seen EXCEPT !.robots[i].dyingTimer = r.dyingTimer + deltaTime,
                        !.robots[i].alive =
                            IF r.dyingTimer + deltaTime > DyingLimit THEN FALSE ELSE r.alive]
      ELSE LET cooldown == IF r.attackCooldown > 0
                           THEN r.attackCooldown - deltaTime
                           ELSE r.attackCooldown
               cooled == [seen EXCEPT !.robots[i].attackCooldown = cooldown,
                                      !.robots[i].sinceAttack =
                                          Min(AttackCooldown, @ + deltaTime),
                                      !.frame.playerPos = <<w.camera>>]
           IN  IF inRange /\ cooldown <= 0
               THEN IF w.build = "basic"
                    THEN attackPlayerBasic(cooled, i)
                    ELSE attackPlayer(cooled, i)
               ELSE cooled

\* for (const robot of robots) robot.update(deltaTime), from robots[i] on;
\* near is the set of list positions within attack range.
RECURSIVE updateRobots(_, _, _, _)
updateRobots(w, i, deltaTime, near) ==
  IF i > Len(w.robots) THEN w
  ELSE updateRobots(update(w, i, deltaTime, i \in near), i + 1, deltaTime, near)

IsAlive(r) == r.alive

IsStanding(r) == r.alive /\ ~r.dying

\* purge that removes the dying enemies too.
purgeDying(list) == SelectSeq(list, IsStanding)

\* purge that removes nothing.
purgeNothing(list) == list

\* robots = robots.filter(r => r.alive)
purge(list) == SelectSeq(list, IsAlive)

\* collectPickup with the heal not capped.
collectPickupNoCap(w, i) ==
  [w EXCEPT !.gs.health = w.gs.health + PickupHeal,
            !.pickups[i].collected = TRUE]

\* The collection of pickups[i]: the heal, capped at maxHealth.
collectPickup(w, i) ==
  [w EXCEPT !.gs.health = Min(w.gs.maxHealth, w.gs.health + PickupHeal),
            !.pickups[i].collected = TRUE]

\* The pickup loop of animate: reach is the set of list positions with
\* dist < 3.
RECURSIVE updatePickups(_, _, _)
updatePickups(w, i, reach) ==
  IF i > Len(w.pickups) THEN w
  ELSE updatePickups(IF i \in reach THEN collectPickup(w, i) ELSE w, i + 1, reach)

\* The filter of the pickup list that keeps a collected pickup.
KeepCollected(p) == TRUE

\* pickups.filter(p => !p.collected)
NotCollected(p) == ~p.collected

\* FirstHit without the test of dying.
FirstHitAny(list, hits) ==
  LET struck == {i \in 1 .. Len(list) : i \in hits}
  IN  IF struck = {} THEN 0
      ELSE CHOOSE i \in struck : \A j \in struck : i <= j

\* FirstHit that takes the last enemy of the list the ray intersects.
FirstHitLast(list, hits) ==
  LET struck == {i \in 1 .. Len(list) : i \in hits /\ ~list[i].dying}
  IN  IF struck = {} THEN 0
      ELSE CHOOSE i \in struck : \A j \in struck : i >= j

\* The enemy a ray resolves: the first one of the list that is not dying
\* and that the ray intersects (hits: the list positions it intersects);
\* 0 if there is none.
FirstHit(list, hits) ==
  LET struck == {i \in 1 .. Len(list) : i \in hits /\ ~list[i].dying}
  IN  IF struck = {} THEN 0
      ELSE CHOOSE i \in struck : \A j \in struck : i <= j

\* What lastFrame holds when animate() starts.
NewFrame ==
  [rendered |-> FALSE, stoppedUpdates |-> 0, stoppedAttacks |-> 0, respawns |-> 0,
   playerPos |-> <<>>, threatList |-> <<>>]

\* display.textContent = a fixed text, or the question of an enemy.
DisplayText(label) == [label |-> label, question |-> <<>>]

DisplayQuestion(r) == [label |-> "question", question |-> <<r.question>>]

\* updateQuestionDisplay of the enhanced build; aimed is the set of list
\* positions the crosshair ray intersects.
updateQuestionDisplay(w, aimed) ==
  LET i == FirstHit(w.robots, aimed)
  IN  [w EXCEPT !.ui.currentQuestion =
         IF Len(w.robots) = 0 THEN DisplayText("INCOMING...")
         ELSE IF i # 0 THEN DisplayQuestion(w.robots[i])
         ELSE DisplayText("AIM TO SCAN")]

\* updateQuestionDisplay of the basic build: with no enemy aimed at, the
\* question of the closest enemy that is not dying (closest: its list
\* position), and the text as it was if every enemy is dying.
updateQuestionDisplayBasic(w, aimed, closest) ==
  LET i == FirstHit(w.robots, aimed)
  IN  [w EXCEPT !.ui.currentQuestion =
         IF Len(w.robots) = 0 THEN DisplayText("INCOMING...")
         ELSE IF i # 0 THEN DisplayQuestion(w.robots[i])
         ELSE IF FirstHit(w.robots, {closest}) # 0 THEN DisplayQuestion(w.robots[closest])
         ELSE @]

\* closest is the list position of an enemy that is not dying, or 0 if
\* there is none.
ClosestOk(list, closest) ==
  IF \A i \in 1 .. Len(list) : list[i].dying THEN closest = 0
  ELSE closest \in 1 .. Len(list) /\ ~list[closest].dying

\* updateThreatIndicator: lastFrame holds the length of the list the call
\* was made on.
updateThreatIndicator(w) == [w EXCEPT !.frame.threatList = <<Len(w.robots)>>]

\* The spawn step of animate: robot is the enemy spawnRobot() would create.
spawnStep(w, deltaTime, robot) ==
  IF w.spawnTimer + deltaTime >= w.spawnInterval
  THEN [w EXCEPT !.robots = Append(@, robot), !.spawnTimer = 0]
  ELSE [w EXCEPT !.spawnTimer = @ + deltaTime]

\* animate() with the question display and the threat indicator updated
\* before the enemies are.
animateUiFirst(w, deltaTime, movement, robot, near, reach, aimed) ==
  LET f == [w EXCEPT !.frame = NewFrame]
  IN  IF f.gs.isPaused THEN f
      ELSE IF ~f.gs.isRunning THEN [f EXCEPT !.frame.rendered = TRUE]
      ELSE LET moved == [f EXCEPT !.camera = updatePlayerMovement(@, movement),
                                  !.physics = updatePlayerY(@, deltaTime)]
               spawned == spawnStep(moved, deltaTime, robot)
               shown == updateThreatIndicator(updateQuestionDisplay(spawned, aimed))
               updated == updateRobots(shown, 1, deltaTime, near)
               purged == [updated EXCEPT !.robots = purge(@),
                                         !.particles = updateParticles(@, deltaTime),
                                         !.bullets = updateBullets(@, deltaTime)]
               picked == updatePickups(purged, 1, reach)
           IN  [picked EXCEPT !.pickups = SelectSeq(@, NotCollected),
                              !.frame.rendered = TRUE]

\* animate() with the render call made in a paused frame too.
animateRenderPaused(w, deltaTime, movement, robot, near, reach, aimed) ==
  LET f == [w EXCEPT !.frame = NewFrame]
  IN  IF f.gs.isPaused THEN [f EXCEPT !.frame.rendered = TRUE]
      ELSE IF ~f.gs.isRunning THEN [f EXCEPT !.frame.rendered = TRUE]
      ELSE LET moved == [f EXCEPT !.camera = updatePlayerMovement(@, movement),
                                  !.physics = updatePlayerY(@, deltaTime)]
               spawned == spawnStep(moved, deltaTime, robot)
               updated == updateRobots(spawned, 1, deltaTime, near)
               purged == [updated EXCEPT !.robots = purge(@),
                                         !.particles = updateParticles(@, deltaTime),
                                         !.bullets = updateBullets(@, deltaTime)]
               picked == updatePickups(purged, 1, reach)
               kept == [picked EXCEPT !.pickups = SelectSeq(@, NotCollected)]
               shown == updateThreatIndicator(updateQuestionDisplay(kept, aimed))
           IN  [shown EXCEPT !.frame.rendered = TRUE]

\* animate() of the enhanced build; movement is the displacement
\* updatePlayerMovement computes from the keys and deltaTime.
animate(w, deltaTime, movement, robot, near, reach, aimed) ==
  LET f == [w EXCEPT !.frame = NewFrame]
  IN  IF f.gs.isPaused THEN f
      ELSE IF ~f.gs.isRunning THEN [f EXCEPT !.frame.rendered = TRUE]
      ELSE LET moved == [f EXCEPT !.camera = updatePlayerMovement(@, movement),
                                  !.physics = updatePlayerY(@, deltaTime)]
               spawned == spawnStep(moved, deltaTime, robot)
               updated == updateRobots(spawned, 1, deltaTime, near)
               purged == [updated EXCEPT !.robots = purge(@),
                                         !.particles = updateParticles(@, deltaTime),
                                         !.bullets = updateBullets(@, deltaTime)]
               picked == updatePickups(purged, 1, reach)
               kept == [picked EXCEPT !.pickups = SelectSeq(@, NotCollected)]
               shown == updateThreatIndicator(updateQuestionDisplay(kept, aimed))
           IN  [shown EXCEPT !.frame.rendered = TRUE]

\* animate() of the basic build: no pause check, no pickups, no threat
\* indicator.
animateBasic(w, deltaTime, movement, robot, near, aimed, closest) ==
  LET f == [w EXCEPT !.frame = NewFrame]
  IN  IF ~f.gs.isRunning THEN [f EXCEPT !.frame.rendered = TRUE]
      ELSE LET moved == [f EXCEPT !.camera = updatePlayerMovement(@, movement),
                                  !.physics = updatePlayerY(@, deltaTime)]
               spawned == spawnStep(moved, deltaTime, robot)
               updated == updateRobots(spawned, 1, deltaTime, near)
               purged == [updated EXCEPT !.robots = purge(@),
                                         !.particles = updateParticles(@, deltaTime),
                                         !.bullets = updateBullets(@, deltaTime)]
               shown == updateQuestionDisplayBasic(purged, aimed, closest)
           IN  [shown EXCEPT !.frame.rendered = TRUE]

-----------------------------------------------------------------------------
(* onShoot                                                                 *)

\* scoreKill with the score computed from the combo after the increment.
scoreKillLate(gs) ==
  [gs EXCEPT !.score = @ + PointsPerCombo * Min(gs.combo + 1, MaxCombo),
             !.kills = @ + 1,
             !.combo = Min(gs.combo + 1, MaxCombo)]

\* scoreKill with the combo not capped.
scoreKillNoCap(gs) ==
  [gs EXCEPT !.score = @ + PointsPerCombo * gs.combo,
             !.kills = @ + 1,
             !.combo = gs.combo + 1]

\* score, kills and combo of a correct hit.
scoreKill(gs) ==
  [gs EXCEPT !.score = @ + PointsPerCombo * gs.combo,
             !.kills = @ + 1,
             !.combo = Min(gs.combo + 1, MaxCombo)]

\* nextSpawnInterval without the floor.
nextSpawnIntervalNoFloor(interval, floor) == interval - SpawnIntervalStep

\* The spawn interval after a wave advance.
nextSpawnInterval(interval, floor) == Max(floor, interval - SpawnIntervalStep)

\* waveAdvance without the wave-completion heal.
waveAdvanceNoHeal(w) ==
  LET up == [w EXCEPT !.gs.wave = @ + 1,
                      !.spawnInterval = nextSpawnInterval(@, SpawnFloorEnhanced)]
  IN  IF shouldShowWaveAd(up.gs.wave)
      THEN showInterstitialAd([up EXCEPT !.gs.isPaused = TRUE, !.ui.waveAdOverlay = TRUE])
      ELSE up

\* The wave-advance branch of the enhanced build (kills % 5 === 0).
waveAdvance(w) ==
  LET up == [w EXCEPT !.gs.wave = @ + 1,
                      !.gs.health = Min(w.gs.maxHealth, w.gs.health + WaveHeal),
                      !.spawnInterval = nextSpawnInterval(@, SpawnFloorEnhanced)]
  IN  IF shouldShowWaveAd(up.gs.wave)
      THEN showInterstitialAd([up EXCEPT !.gs.isPaused = TRUE, !.ui.waveAdOverlay = TRUE])
      ELSE up

\* createExplosion; decays is the set of decay rates its particles draw.
createExplosion(w, decays) ==
  [w EXCEPT !.particles = @ \cup {ExplosionParticle(decay) : decay \in decays}]

\* The bullet trail and the explosion of a shot that strikes an enemy.
shotEffects(w, decays) ==
  createExplosion([w EXCEPT !.bullets = @ \cup {BulletTrail}], decays)

\* correctHit with the wave advanced one kill late (kills % 5 === 1).
correctHitLateWave(w, i, drop) ==
  LET killed == [w EXCEPT !.robots[i].dying = TRUE, !.gs = scoreKill(@)]
      dropped == IF drop
                 THEN [killed EXCEPT !.pickups =
                          Append(@, [collected |-> FALSE])]
                 ELSE killed
  IN  IF dropped.gs.kills % KillsPerWave = 1 THEN waveAdvance(dropped) ELSE dropped

\* The correct-answer branch of the enhanced build; drop is
\* (Math.random() < 0.3).
correctHit(w, i, drop) ==
  LET killed == [w EXCEPT !.robots[i].dying = TRUE, !.gs = scoreKill(@)]
      dropped == IF drop
                 THEN [killed EXCEPT !.pickups =
                          Append(@, [collected |-> FALSE])]
                 ELSE killed
  IN  IF dropped.gs.kills % KillsPerWave = 0 THEN waveAdvance(dropped) ELSE dropped

\* onShoot with a wrong hit that also takes the points of a kill back.
onShootPenalty(w, hits, part, drop, decays) ==
  IF ~w.gs.isRunning \/ w.gs.isPaused THEN w
  ELSE LET i == FirstHit(w.robots, hits)
           fired == shotEffects(w, decays)
       IN  IF i = 0 THEN w
           ELSE IF w.robots[i].answers[part] = w.robots[i].correctAnswer
           THEN correctHit(fired, i, drop)
           ELSE [fired EXCEPT !.gs.combo = 1,
                              !.gs.score = Max(0, @ - PointsPerCombo)]

\* onShoot that tests isRunning only.
onShootIgnorePause(w, hits, part, drop, decays) ==
  IF ~w.gs.isRunning THEN w
  ELSE LET i == FirstHit(w.robots, hits)
           fired == shotEffects(w, decays)
       IN  IF i = 0 THEN w
           ELSE IF w.robots[i].answers[part] = w.robots[i].correctAnswer
           THEN correctHit(fired, i, drop)
           ELSE [fired EXCEPT !.gs.combo = 1]

\* onShoot of the enhanced build; part is the zone checkHit reports.
onShoot(w, hits, part, drop, decays) ==
  IF ~w.gs.isRunning \/ w.gs.isPaused THEN w
  ELSE LET i == FirstHit(w.robots, hits)
           fired == shotEffects(w, decays)
       IN  IF i = 0 THEN w
           ELSE IF w.robots[i].answers[part] = w.robots[i].correctAnswer
           THEN correctHit(fired, i, drop)
           ELSE [fired EXCEPT !.gs.combo = 1]

\* The three input paths of a shot.  onCanvasClick: a click on the canvas;
\* locked is isPointerLocked (a click without the pointer lock asks for the
\* lock and does not shoot).
onCanvasClick(w, locked, hits, part, drop, decays) ==
  IF ~w.gs.isRunning \/ w.gs.isPaused THEN w
  ELSE IF ~locked THEN w
  ELSE onShoot(w, hits, part, drop, decays)

\* onTouchEnd of the look area; tap says that the touch that ends is the
\* look touch, shorter than TAP_THRESHOLD and within TAP_MOVE_THRESHOLD of
\* where it began.  The handler does not test isRunning or isPaused.
onTouchEnd(w, tap, hits, part, drop, decays) ==
  IF tap THEN onShoot(w, hits, part, drop, decays) ELSE w

\* onFireButtonPress: the handler tests isRunning only.
onFireButtonPress(w, hits, part, drop, decays) ==
  IF ~w.gs.isRunning THEN w
  ELSE onShoot(w, hits, part, drop, decays)

\* onShoot of the basic build.
onShootBasic(w, hits, part, decays) ==
  IF ~w.gs.isRunning THEN w
  ELSE LET i == FirstHit(w.robots, hits)
           fired == shotEffects(w, decays)
       IN  IF i = 0 THEN w
           ELSE IF w.robots[i].answers[part] = w.robots[i].correctAnswer
           THEN LET killed == [fired EXCEPT !.robots[i].dying = TRUE, !.gs = scoreKill(@)]
                IN  IF killed.gs.kills % KillsPerWave = 0
                    THEN [killed EXCEPT !.gs.wave = @ + 1,
                                        !.spawnInterval = nextSpawnInterval(@, SpawnFloorBasic)]
                    ELSE killed
           ELSE [fired EXCEPT !.gs.combo = 1]

-----------------------------------------------------------------------------
(* startGame, togglePause                                                  *)

\* The gameState fields startGame resets.
resetGameState(gs) ==
  [gs EXCEPT !.score = 0, !.wave = 1, !.health = gs.maxHealth, !.combo = 1,
             !.kills = 0, !.isRunning = TRUE]

\* startGame that leaves the particles of the previous session in their
\* list.
startGameKeepParticles(w, d) ==
  LET gs == resetGameState(w.gs)
  IN  [w EXCEPT !.camera = Origin,
                !.physics = Grounded,
                !.gs = gs,
                !.robots = <<Robot(gs.mode, gs.wave, d)>>,
                !.pickups = <<>>,
                !.bullets = {},
                !.spawnTimer = 0,
                !.spawnInterval = InitialSpawnInterval,
                !.ads = NewAdSession,
                !.offer = FALSE,
                !.ui.startScreen = FALSE,
                !.ui.gameoverScreen = FALSE,
                !.ui.extraLifeBtnHidden = TRUE,
                !.ui.extraLifeBtnShow = FALSE,
                !.ui.reviveModal = FALSE]

\* startGame of the enhanced build; d holds the draws of the first enemy.
startGame(w, d) ==
  LET gs == resetGameState(w.gs)
  IN  [w EXCEPT !.camera = Origin,
                !.physics = Grounded,
                !.gs = gs,
                !.robots = <<Robot(gs.mode, gs.wave, d)>>,
                !.pickups = <<>>,
                !.particles = {},
                !.bullets = {},
                !.spawnTimer = 0,
                !.spawnInterval = InitialSpawnInterval,
                !.ads = NewAdSession,
                !.offer = FALSE,
                !.ui.startScreen = FALSE,
                !.ui.gameoverScreen = FALSE,
                !.ui.extraLifeBtnHidden = TRUE,
                !.ui.extraLifeBtnShow = FALSE,
                !.ui.reviveModal = FALSE]

\* startGame of the basic build.
startGameBasic(w, d) ==
  [w EXCEPT !.camera = Origin,
            !.physics = Grounded,
            !.gs = resetGameState(w.gs),
            !.robots = <<RobotBasic(d)>>,
            !.particles = {},
            !.bullets = {},
            !.spawnTimer = 0,
            !.spawnInterval = InitialSpawnInterval,
            !.ui.startScreen = FALSE,
            !.ui.gameoverScreen = FALSE]

\* onJumpButtonPress without the test of isGrounded.
onJumpButtonPressAir(w) ==
  IF ~w.gs.isRunning \/ w.gs.isPaused THEN w
  ELSE [w EXCEPT !.physics.velocityY = JumpForce, !.physics.isGrounded = FALSE]

\* onJumpButtonPress of the enhanced build.
onJumpButtonPress(w) ==
  IF ~w.gs.isRunning \/ w.gs.isPaused THEN w
  ELSE IF w.physics.isGrounded
  THEN [w EXCEPT !.physics.velocityY = JumpForce, !.physics.isGrounded = FALSE]
  ELSE w

togglePause(w) ==
  IF ~w.gs.isRunning THEN w
  ELSE [w EXCEPT !.gs.isPaused = ~w.gs.isPaused, !.ui.pauseMenu = ~w.gs.isPaused]

-----------------------------------------------------------------------------
(* Timer callbacks                                                         *)

\* The list without its i-th element.
Remove(list, i) == SubSeq(list, 1, i - 1) \o SubSeq(list, i + 1, Len(list))

\* rewardedAdDone that grants the revive at every completed revive ad.
rewardedAdDoneOneAd(w, type) ==
  LET watched == [w EXCEPT !.ads.adsWatched = @ + 1, !.calls.open = FALSE]
      called == [watched EXCEPT !.calls.onComplete = @ + 1]
  IN  CASE type = "revive" ->
             executeRevive([called EXCEPT !.ads.revivesUsed = @ + 1,
                                          !.ads.currentReviveAdCount = 0])
        [] type = "extraLife" ->
             extraLifeGranted([called EXCEPT !.ads.extraLivesUsed = @ + 1])
        [] OTHER -> watched

\* The completion timer of showMockRewardedAd: onComplete runs in the
\* branch of type 'revive' (with the partial progress or without) and in
\* the branch of type 'extraLife'; there is no other branch.
rewardedAdDone(w, type) ==
  LET watched == [w EXCEPT !.ads.adsWatched = @ + 1, !.calls.open = FALSE]
      called == [watched EXCEPT !.calls.onComplete = @ + 1]
  IN  CASE type = "revive" ->
             IF watched.ads.currentReviveAdCount + 1 >= ReviveAdCount
             THEN executeRevive([called EXCEPT !.ads.revivesUsed = @ + 1,
                                               !.ads.currentReviveAdCount = 0])
             ELSE \* partial progress: re-enable the button, retry in 500 ms
                  [called EXCEPT !.ads.currentReviveAdCount = @ + 1,
                                 !.ui.reviveBtnDisabled = FALSE,
                                 !.timers = Append(@, Timer("retry", "revive"))]
        [] type = "extraLife" ->
             extraLifeGranted([called EXCEPT !.ads.extraLivesUsed = @ + 1])
        [] OTHER -> watched

\* The completion timer of showMockInterstitialAd with the callback onShoot
\* hands to showWaveTransitionAd.
interstitialAdDone(w) ==
  [w EXCEPT !.ads.adsWatched = @ + 1,
            !.calls.open = FALSE,
            !.calls.onComplete = @ + 1,
            !.ui.waveAdOverlay = FALSE,
            !.gs.isPaused = FALSE]

-----------------------------------------------------------------------------
(* Inputs                                                                  *)

\* clock.getDelta() of a frame, in tenths of a second: one-second frames
\* in the gameplay specification, two-second frames in the others.
DeltaTimes == {10}

LongDeltaTimes == {20}

\* Frames of half a second and of one second.
ShortDeltaTimes == {5, 10}

Parts == {"head", "chest", "knee"}

\* No key pressed: the movement of a player who stands still.
Still == [x |-> 0, z |-> 0]

\* The decay rates the particles of an explosion draw in the gameplay
\* specifications: all 2.0.
PlainDecays == {20}

\* The decoy-loop draws of the gameplay specifications: offsets +1 and +2.
PlainDecoys == <<[k |-> 6, up |-> TRUE], [k |-> 7, up |-> TRUE]>>

\* The draws of a new enemy in the gameplay specifications: the first type
\* of the pool, the first question, the correct answer on the chest.
PlainDraw(mode) ==
  [type |-> 0, op |-> 0, r1 |-> 0, r2 |-> 0,
   decoys |-> IF mode = "math" THEN PlainDecoys ELSE <<>>,
   j2 |-> 2, j1 |-> 0, q |-> 0]

\* The zone that carries the correct answer of enemy r.
CorrectPart(r) == CHOOSE part \in Parts : r.answers[part] = r.correctAnswer

\* The bounds of the model on the lists of a state.
WithinBounds(w) ==
  /\ Len(w.robots) <= AdsRobots
  /\ Len(w.pickups) <= MaxPickups
  /\ Len(w.timers) <= MaxTimers

\* Timers of one delay fire in creation order.
CanFire(i) == \A j \in 1 .. (i - 1) : timers[j].kind # timers[i].kind

-----------------------------------------------------------------------------
(* Initial state: the module-level declarations of the two builds.         *)

InitialUi ==
  [startScreen |-> TRUE, gameoverScreen |-> FALSE, reviveModal |-> FALSE,
   reviveBtnDisabled |-> FALSE, extraLifeBtnHidden |-> TRUE, extraLifeBtnShow |-> FALSE,
   pauseMenu |-> FALSE, waveAdOverlay |-> FALSE,
   currentQuestion |-> DisplayText("READY")]

InitialGameState(b) ==
  LET maxHealth == IF b = "basic" THEN MaxHealthBasic ELSE MaxHealthEnhanced
  IN  [score |-> 0, wave |-> 1, health |-> maxHealth, maxHealth |-> maxHealth,
       combo |-> 1, kills |-> 0, isRunning |-> FALSE, isPaused |-> FALSE, mode |-> "math"]

InitBuild(b) ==
  /\ build = b
  /\ gameState = InitialGameState(b)
  /\ robots = <<>>
  /\ pickups = <<>>
  /\ spawnTimer = 0
  /\ spawnInterval = InitialSpawnInterval
  /\ adSession = NewAdSession
  /\ extraLifeOfferShown = FALSE
  /\ timers = <<>>
  /\ ui = InitialUi
  /\ lastFrame = NewFrame
  /\ camera = Origin
  /\ particles = {}
  /\ bullets = {}
  /\ enemy = <<>>
  /\ adCalls = NoAdCalls
  /\ generator = NoCall
  /\ physics = Grounded

Init == InitBuild("enhanced")

-----------------------------------------------------------------------------
(* Actions: one per event handler, timer callback and animation frame.     *)

Step(w) == WithinBounds(w) /\ Commit(w)

\* The enemy spawnRobot() creates in the gameplay specifications.
PlainRobot == Robot(gameState.mode, gameState.wave, PlainDraw(gameState.mode))

\* A click on the start button or on the restart button.
StartGame ==
  /\ build = "enhanced"
  /\ ui.startScreen \/ ui.gameoverScreen
  /\ Step(startGame(World, PlainDraw(gameState.mode)))

\* A shoot input (mouse click, touch tap, fire button).
Shoot ==
  /\ build = "enhanced"
  /\ \E hits \in SUBSET (1 .. Len(robots)), part \in Parts, drop \in BOOLEAN :
       LET w == onShoot(World, hits, part, drop, PlainDecays)
       IN  w.gs.kills <= MaxKills /\ Step(w)

\* An animation frame.
Frame ==
  /\ build = "enhanced"
  /\ \E deltaTime \in DeltaTimes, near \in SUBSET (1 .. Len(robots)),
        reach \in SUBSET (1 .. Len(pickups)) :
       LET w == animate(World, deltaTime, Still, PlainRobot, near, reach, {})
       IN  Len(w.robots) <= MaxRobots /\ Step(w)

\* The Escape key or the resume button.
TogglePause ==
  /\ build = "enhanced"
  /\ Step(togglePause(World))

\* A click on the revive button of the revive modal.
AttemptRevive ==
  /\ build = "enhanced"
  /\ ui.reviveModal /\ ~ui.reviveBtnDisabled
  /\ Step(attemptRevive(World))

\* A click on the give-up button of the revive modal.
GiveUp ==
  /\ build = "enhanced"
  /\ ui.reviveModal
  /\ Step(showFinalGameOver(World))

\* A click on the extra-life button.
ClaimExtraLife ==
  /\ build = "enhanced"
  /\ ui.extraLifeBtnShow /\ ~ui.extraLifeBtnHidden
  /\ Step(claimExtraLife(World))

\* A mock rewarded ad completes.
RewardedAdDone ==
  \E i \in 1 .. Len(timers) :
    /\ timers[i].kind = "rewarded"
    /\ CanFire(i)
    /\ Step(rewardedAdDone([World EXCEPT !.timers = Remove(@, i)], timers[i].type))

\* A mock interstitial ad completes.
InterstitialAdDone ==
  \E i \in 1 .. Len(timers) :
    /\ timers[i].kind = "interstitial"
    /\ CanFire(i)
    /\ Step(interstitialAdDone([World EXCEPT !.timers = Remove(@, i)]))

\* setTimeout(() => attemptRevive(), 500) fires.
RetryRevive ==
  \E i \in 1 .. Len(timers) :
    /\ timers[i].kind = "retry"
    /\ CanFire(i)
    /\ Step(attemptRevive([World EXCEPT !.timers = Remove(@, i)]))

\* A shoot input of a player who misses or hits the correct answer of the
\* oldest enemy that is not dying.
ShootCorrect ==
  /\ build = "enhanced"
  /\ \E hits \in {{}, 1 .. Len(robots)}, drop \in BOOLEAN :
       LET i == FirstHit(robots, hits)
           part == IF i = 0 THEN "chest" ELSE CorrectPart(robots[i])
           w == onShoot(World, hits, part, drop, PlainDecays)
       IN  w.gs.kills <= AdsKills /\ Step(w)

\* An animation frame two seconds after the previous one, the player
\* within attack range of every enemy or of none.
LongFrame ==
  /\ build = "enhanced"
  /\ \E deltaTime \in LongDeltaTimes, near \in {{}, 1 .. Len(robots)},
        reach \in SUBSET (1 .. Len(pickups)) :
       Step(animate(World, deltaTime, Still, PlainRobot, near, reach, {}))

\* A frame of a long session: two seconds after the previous one, the
\* player out of every enemy's attack range.
FarFrame ==
  /\ build = "enhanced"
  /\ \E deltaTime \in LongDeltaTimes :
       LET w == animate(World, deltaTime, Still, PlainRobot, {}, {}, {})
       IN  Len(w.robots) <= MaxRobots /\ Step(w)

\* A shoot input of a combo session: any zone, no pickup drop.
ComboShoot ==
  /\ build = "enhanced"
  /\ \E hits \in SUBSET (1 .. Len(robots)), part \in Parts :
       LET w == onShoot(World, hits, part, FALSE, PlainDecays)
       IN  w.gs.kills <= ComboKills /\ Step(w)

\* A shoot input of a long session: a miss or a hit on the correct answer,
\* no pickup drop.
LongShoot ==
  /\ build = "enhanced"
  /\ \E hits \in SUBSET (1 .. Len(robots)) :
       LET i == FirstHit(robots, hits)
           part == IF i = 0 THEN "chest" ELSE CorrectPart(robots[i])
           w == onShoot(World, hits, part, FALSE, PlainDecays)
       IN  w.gs.kills <= LongKills /\ Step(w)

\* The basic build: start or restart, shoot, frame.
StartGameBasic ==
  /\ build = "basic"
  /\ ui.startScreen \/ ui.gameoverScreen
  /\ Step(startGameBasic(World, PlainDraw("math")))

LongShootBasic ==
  /\ build = "basic"
  /\ \E hits \in SUBSET (1 .. Len(robots)) :
       LET i == FirstHit(robots, hits)
           part == IF i = 0 THEN "chest" ELSE CorrectPart(robots[i])
           w == onShootBasic(World, hits, part, PlainDecays)
       IN  w.gs.kills <= LongKills /\ Step(w)

FarFrameBasic ==
  /\ build = "basic"
  /\ \E deltaTime \in LongDeltaTimes, closest \in 0 .. AdsRobots :
       LET w == animateBasic(World, deltaTime, Still, RobotBasic(PlainDraw("math")),
                             {}, {}, closest)
       IN  ClosestOk(w.robots, closest) /\ Len(w.robots) <= MaxRobots /\ Step(w)

\* The draws of a new enemy of the basic build: every type, the first
\* question, the correct answer on the chest.
BasicDraws == {[PlainDraw("math") EXCEPT !.type = t] : t \in RandomInt(Len(TypePoolBasic))}

StartGameAnyType ==
  /\ build = "basic"
  /\ ui.startScreen \/ ui.gameoverScreen
  /\ \E d \in BasicDraws : Step(startGameBasic(World, d))

\* A shoot input of the basic build: a miss or a hit on the correct answer
\* of the oldest enemy that is not dying.
ShootCorrectBasic ==
  /\ build = "basic"
  /\ \E hits \in {{}, 1 .. Len(robots)} :
       LET i == FirstHit(robots, hits)
           part == IF i = 0 THEN "chest" ELSE CorrectPart(robots[i])
           w == onShootBasic(World, hits, part, PlainDecays)
       IN  w.gs.kills <= AdsKills /\ Step(w)

\* A frame of the basic build two seconds after the previous one, the
\* player within attack range of every enemy or of none.
LongFrameBasic ==
  /\ build = "basic"
  /\ \E deltaTime \in LongDeltaTimes, near \in {{}, 1 .. Len(robots)}, d \in BasicDraws,
        closest \in 0 .. AdsRobots :
       LET w == animateBasic(World, deltaTime, Still, RobotBasic(d), near, {}, closest)
       IN  ClosestOk(w.robots, closest) /\ Step(w)

\* A frame of half a second or of one second, the player within attack
\* range of every enemy or of none.
ShortFrame ==
  /\ build = "enhanced"
  /\ \E deltaTime \in ShortDeltaTimes, near \in {{}, 1 .. Len(robots)} :
       Step(animate(World, deltaTime, Still, PlainRobot, near, {}, {}))

\* Frames of a tenth of a second and of two seconds.
MixedDeltaTimes == {1, 20}

\* A frame a tenth of a second or two seconds after the previous one, the
\* player within attack range of every enemy and out of reach of the
\* pickups.
MixedFrame ==
  /\ build = "enhanced"
  /\ \E deltaTime \in MixedDeltaTimes :
       Step(animate(World, deltaTime, Still, PlainRobot, 1 .. Len(robots), {}, {}))

\* A shoot input of a player who misses or hits the correct answer of the
\* oldest enemy that is not dying, up to ResetKills kills.
ResetShoot ==
  /\ build = "enhanced"
  /\ \E hits \in {{}, 1 .. Len(robots)}, drop \in BOOLEAN :
       LET i == FirstHit(robots, hits)
           part == IF i = 0 THEN "chest" ELSE CorrectPart(robots[i])
           w == onShoot(World, hits, part, drop, PlainDecays)
       IN  w.gs.kills <= ResetKills /\ Step(w)

\* The movement of a one-second frame: none, 8 m east at moveSpeed, 12 m
\* north at the sprint speed.
WalkMovements == {Still, [x |-> 8, z |-> 0], [x |-> 0, z |-> -12]}

\* A frame of a player who walks and aims: the player within attack range
\* of every enemy or of none, the crosshair on any enemies of the list.
WalkFrame ==
  /\ build = "enhanced"
  /\ \E deltaTime \in DeltaTimes, movement \in WalkMovements,
        near \in {{}, 1 .. Len(robots)}, aimed \in SUBSET (1 .. MaxRobots) :
       LET w == animate(World, deltaTime, movement, PlainRobot, near, {}, aimed)
       IN  Len(w.robots) <= MaxRobots /\ Step(w)

\* Ad types the game does not pass to showRewardedAd: one canShowAd admits
\* and one it does not know.
OtherAdTypes == {"interstitial", "banner"}

\* A call of showRewardedAd that is not the game's, made while no ad is
\* shown and before any ad of the session has been watched.
RequestRewardedAd ==
  /\ ~adCalls.open
  /\ adSession.adsWatched = 0
  /\ \E type \in OtherAdTypes : Step(showRewardedAd(World, type))

\* A frame two seconds after the previous one, the player within attack
\* range of every enemy or of none, up to MaxRobots enemies.
AdFrame ==
  /\ build = "enhanced"
  /\ \E deltaTime \in LongDeltaTimes, near \in {{}, 1 .. Len(robots)} :
       LET w == animate(World, deltaTime, Still, PlainRobot, near, {}, {})
       IN  Len(w.robots) <= MaxRobots /\ Step(w)

\* A shoot input of a player who misses or hits the correct answer of the
\* oldest enemy that is not dying, no pickup drop, up to ComboKills kills.
AdShoot ==
  /\ build = "enhanced"
  /\ \E hits \in {{}, 1 .. Len(robots)} :
       LET i == FirstHit(robots, hits)
           part == IF i = 0 THEN "chest" ELSE CorrectPart(robots[i])
           w == onShoot(World, hits, part, FALSE, PlainDecays)
       IN  w.gs.kills <= ComboKills /\ Step(w)

\* The shoot inputs of a session with the pause menu and the wave ad: a
\* click on the canvas with or without the pointer lock, the end of a touch
\* that is a tap or not, a press of the fire button; any ray and zone, no
\* pickup drop, up to InputKills kills.
InputKills == 3

CanvasClick ==
  /\ build = "enhanced"
  /\ \E locked \in BOOLEAN, hits \in SUBSET (1 .. Len(robots)), part \in Parts :
       LET w == onCanvasClick(World, locked, hits, part, FALSE, PlainDecays)
       IN  w.gs.kills <= InputKills /\ Step(w)

TouchEnd ==
  /\ build = "enhanced"
  /\ \E tap \in BOOLEAN, hits \in SUBSET (1 .. Len(robots)), part \in Parts :
       LET w == onTouchEnd(World, tap, hits, part, FALSE, PlainDecays)
       IN  w.gs.kills <= InputKills /\ Step(w)

FireButtonPress ==
  /\ build = "enhanced"
  /\ \E hits \in SUBSET (1 .. Len(robots)), part \in Parts :
       LET w == onFireButtonPress(World, hits, part, FALSE, PlainDecays)
       IN  w.gs.kills <= InputKills /\ Step(w)

\* A press of the jump button.
JumpButtonPress ==
  /\ build = "enhanced"
  /\ Step(onJumpButtonPress(World))

\* Frames a tenth, two tenths and half a second after the previous one.
JumpDeltaTimes == {1, 2, 5}

\* A frame of a session with jumps: the player out of every enemy's attack
\* range.
JumpFrame ==
  /\ build = "enhanced"
  /\ \E deltaTime \in JumpDeltaTimes :
       LET w == animate(World, deltaTime, Still, PlainRobot, {}, {}, {})
       IN  Len(w.robots) <= MaxRobots /\ Step(w)

\* Sessions with several ads in flight at once: up to FlightTimers pending
\* setTimeout callbacks, each of which runs when its delay has passed.
FlightTimers == 3

\* Frames of the sessions with ads in flight: one second after the
\* previous one.
FlightDeltaTimes == {10}

\* The pending callback timers[i] can be the next one to run: it is to
\* run before the next frame, and so is no callback of its delay that was
\* set before it.
Runs(i) ==
  /\ \A d \in FlightDeltaTimes : timers[i].left < d
  /\ \A j \in 1 .. (i - 1) : timers[j].kind # timers[i].kind

\* The pending callbacks after d tenths of a second: a callback whose time
\* has come runs before the frame.
CanElapse(d) == \A i \in 1 .. Len(timers) : timers[i].left > 0

Elapse(list, d) == [i \in 1 .. Len(list) |-> [list[i] EXCEPT !.left = Max(0, @ - d)]]

\* Most enemies in the active list at once in that specification, whose
\* player does not shoot.
FlightRobots == 5

FlightStep(w) ==
  /\ Len(w.robots) <= FlightRobots
  /\ Len(w.timers) <= FlightTimers
  /\ Commit(w)

\* A click on the start button or on the restart button.
FlightStartGame ==
  /\ build = "enhanced"
  /\ ui.startScreen \/ ui.gameoverScreen
  /\ FlightStep(startGame(World, PlainDraw(gameState.mode)))

\* A frame, the player within attack range of every enemy or of none:
\* deltaTime has passed for the pending callbacks too.
FlightFrame ==
  /\ build = "enhanced"
  /\ \E deltaTime \in FlightDeltaTimes, near \in {{}, 1 .. Len(robots)} :
       /\ CanElapse(deltaTime)
       /\ FlightStep(animate([World EXCEPT !.timers = Elapse(@, deltaTime)],
                             deltaTime, Still, PlainRobot, near, {}, {}))

\* A click on the revive button: a disabled button gets no click event.
FlightAttemptRevive ==
  /\ build = "enhanced"
  /\ ui.reviveModal /\ ~ui.reviveBtnDisabled
  /\ FlightStep(attemptRevive(World))

\* A touch that starts on the revive button: the touchstart listener calls
\* attemptRevive, and the disabled attribute holds back click events only.
ReviveTouchStart ==
  /\ build = "enhanced"
  /\ ui.reviveModal
  /\ FlightStep(attemptRevive(World))

\* A click on the give-up button of the revive modal.
FlightGiveUp ==
  /\ build = "enhanced"
  /\ ui.reviveModal
  /\ FlightStep(showFinalGameOver(World))

\* A click on the extra-life button.
FlightClaimExtraLife ==
  /\ build = "enhanced"
  /\ ui.extraLifeBtnShow /\ ~ui.extraLifeBtnHidden
  /\ FlightStep(claimExtraLife(World))

\* A touch that starts on the extra-life button: claimExtraLife takes the
\* class show off the button and leaves it in the page until the reward is
\* granted, which is when the class hidden is put back.
ExtraLifeTouchStart ==
  /\ build = "enhanced"
  /\ ~ui.extraLifeBtnHidden
  /\ FlightStep(claimExtraLife(World))

\* A mock rewarded ad completes.
FlightRewardedAdDone ==
  \E i \in 1 .. Len(timers) :
    /\ timers[i].kind = "rewarded"
    /\ Runs(i)
    /\ FlightStep(rewardedAdDone([World EXCEPT !.timers = Remove(@, i)], timers[i].type))

\* setTimeout(() => attemptRevive(), 500) fires.
FlightRetryRevive ==
  \E i \in 1 .. Len(timers) :
    /\ timers[i].kind = "retry"
    /\ Runs(i)
    /\ FlightStep(attemptRevive([World EXCEPT !.timers = Remove(@, i)]))

\* camera.position += movement of a frame: no key pressed, or a run of 20 m
\* along one axis.
Movements ==
  {[x |-> 0, z |-> 0], [x |-> 20, z |-> 0], [x |-> -20, z |-> 0],
   [x |-> 0, z |-> 20], [x |-> 0, z |-> -20]}

\* Spawn offsets from the player: a direction times a distance of 35 m to
\* 50 m.
SpawnOffsets ==
  {[x |-> 35, z |-> 0], [x |-> -35, z |-> 0], [x |-> 0, z |-> 35], [x |-> 0, z |-> -35],
   [x |-> 30, z |-> 40], [x |-> -30, z |-> -40], [x |-> 45, z |-> 0], [x |-> 0, z |-> -45]}

\* The displacement of an enemy in one update: 15 m along one axis, none
\* for an enemy at the player's position.
EnemySteps ==
  {[x |-> 0, z |-> 0], [x |-> 15, z |-> 0], [x |-> -15, z |-> 0],
   [x |-> 0, z |-> 15], [x |-> 0, z |-> -15]}

\* step points from position from to position to: direction is
\* playerPos - this.group.position, normalized.
Towards(step, from, to) ==
  IF from = to THEN step = [x |-> 0, z |-> 0]
  ELSE step.x * (to.x - from.x) + step.z * (to.z - from.z) > 0

\* The position statements alone: every variable but camera and enemy
\* stays as it is.
Place(c, e) ==
  /\ camera' = c
  /\ enemy' = e
  /\ UNCHANGED <<build, gameState, robots, pickups, spawnTimer, spawnInterval,
                 adSession, extraLifeOfferShown, timers, ui, lastFrame,
                 particles, bullets, adCalls, generator, physics>>

\* updatePlayerMovement in a frame.
MovePlayer ==
  \E movement \in Movements : Place(updatePlayerMovement(camera, movement), enemy)

\* The position statements of the Robot constructor.
SpawnEnemy ==
  /\ enemy = <<>>
  /\ \E offset \in SpawnOffsets : Place(camera, <<spawnPosition(camera, offset)>>)

\* The position statements of Robot.update, of an enemy that is dying or
\* not.
MoveEnemy ==
  /\ enemy # <<>>
  /\ \E step \in EnemySteps, dying \in BOOLEAN :
       /\ Towards(step, enemy[1], camera)
       /\ Place(camera, <<updatePosition([dying |-> dying], enemy[1], step)>>)

\* The respawn of attackPlayer.
RespawnEnemy ==
  /\ enemy # <<>>
  /\ \E offset \in SpawnOffsets : Place(camera, <<spawnPosition(camera, offset)>>)

\* startGame: the camera back at the centre, the enemies of the previous
\* session dropped.
ResetArena == Place(Origin, <<>>)

-----------------------------------------------------------------------------
(* Specifications                                                          *)

\* Gameplay of the enhanced build: any shot, one-second frames, attacks,
\* pickups, up to MaxKills kills.
Next ==
  \/ StartGame
  \/ Shoot
  \/ Frame

Spec == Init /\ [][Next]_vars

\* Sessions of the enhanced build with deaths, revives and extra lives: a
\* player who hits the correct answer, two-second frames, up to AdsKills
\* kills.
NextAds ==
  \/ StartGame
  \/ ShootCorrect
  \/ LongFrame
  \/ AttemptRevive
  \/ GiveUp
  \/ ClaimExtraLife
  \/ RewardedAdDone
  \/ RetryRevive

SpecAds == Init /\ [][NextAds]_vars

\* Sessions of the basic build with deaths: a player who hits the correct
\* answer, two-second frames, up to AdsKills kills.
InitBasic == InitBuild("basic")

NextBasic ==
  \/ StartGameAnyType
  \/ ShootCorrectBasic
  \/ LongFrameBasic

SpecBasic == InitBasic /\ [][NextBasic]_vars

\* Sessions of a player who stays within attack range or out of it over
\* frames of half a second and of one second.
NextCooldown ==
  \/ StartGame
  \/ ShootCorrect
  \/ ShortFrame
  \/ GiveUp

SpecCooldown == Init /\ [][NextCooldown]_vars

\* The arena: the statements that write the position of the player and of
\* an enemy, applied in any order.
NextArena ==
  \/ MovePlayer
  \/ SpawnEnemy
  \/ MoveEnemy
  \/ RespawnEnemy
  \/ ResetArena

SpecArena == Init /\ [][NextArena]_vars

\* Sessions with deaths in which ads are requested while others are still
\* shown, and which end and restart while ads are shown.
NextFlight ==
  \/ FlightStartGame
  \/ FlightFrame
  \/ FlightAttemptRevive
  \/ ReviveTouchStart
  \/ FlightGiveUp
  \/ FlightClaimExtraLife
  \/ ExtraLifeTouchStart
  \/ FlightRewardedAdDone
  \/ FlightRetryRevive

SpecFlight == Init /\ [][NextFlight]_vars

\* Sessions that end and restart while enemies, pickups, particles and
\* bullet trails are still in their lists.
NextReset ==
  \/ StartGame
  \/ ResetShoot
  \/ MixedFrame
  \/ GiveUp

SpecReset == Init /\ [][NextReset]_vars

\* Every ad request: the revive and extra-life ads of a session with
\* deaths, the wave-transition ad, and rewarded-ad requests of other types.
NextAdApi ==
  \/ StartGame
  \/ AdShoot
  \/ AdFrame
  \/ AttemptRevive
  \/ GiveUp
  \/ ClaimExtraLife
  \/ RewardedAdDone
  \/ RetryRevive
  \/ InterstitialAdDone
  \/ RequestRewardedAd

SpecAdApi == Init /\ [][NextAdApi]_vars

\* The wave-transition ad and the pause toggle: sessions that reach wave 3,
\* with the Escape key or the resume button at any moment.
NextGate ==
  \/ StartGame
  \/ AdShoot
  \/ AdFrame
  \/ TogglePause
  \/ InterstitialAdDone

SpecGate == Init /\ [][NextGate]_vars

\* The shoot inputs: sessions with the pause menu and deaths, in which a
\* click, a tap or a press of the fire button can come at any moment.
NextInput ==
  \/ StartGame
  \/ CanvasClick
  \/ TouchEnd
  \/ FireButtonPress
  \/ LongFrame
  \/ TogglePause
  \/ GiveUp

SpecInput == Init /\ [][NextInput]_vars

\* Jumps: the jump button and the pause toggle at any moment of a session
\* with short frames.
NextJump ==
  \/ StartGame
  \/ JumpButtonPress
  \/ JumpFrame
  \/ TogglePause

SpecJump == Init /\ [][NextJump]_vars

\* Frames of a player who walks and aims.
NextWalk ==
  \/ StartGame
  \/ ResetShoot
  \/ WalkFrame

SpecWalk == Init /\ [][NextWalk]_vars

\* Combo sessions of the enhanced build: any shot, two-second frames, no
\* attacks, up to ComboKills kills.
NextCombo ==
  \/ StartGame
  \/ ComboShoot
  \/ FarFrame
  \/ InterstitialAdDone

SpecCombo == Init /\ [][NextCombo]_vars

\* Long sessions of both builds: a player who hits the correct answer,
\* two-second frames, no attacks, up to LongKills kills.
InitLong == InitBuild("enhanced") \/ InitBuild("basic")

NextLong ==
  \/ StartGame
  \/ LongShoot
  \/ FarFrame
  \/ InterstitialAdDone
  \/ StartGameBasic
  \/ LongShootBasic
  \/ FarFrameBasic

SpecLong == InitLong /\ [][NextLong]_vars

-----------------------------------------------------------------------------
(* The generator specification: one enemy of every mode and wave tier,    *)
(* created from a spread of Math.random() draws.  Its initial states are   *)
(* states of a session in which every kill was made at combo 1, right     *)
(* after the first enemy of the wave has spawned.                          *)

Modes == {"math", "quiz", "english"}

\* The waves at which a generator, a question pool or the type pool changes.
GenWaves == {1, 2, 3, 4, 6, 8, 10}

\* Longest run of decoy-loop draws.
MaxDecoyDraws == 3

\* Most enemies in the active list and most kills after the initial state.
GenRobots == 1

GenKills == 1

\* The least and the greatest draw of a range 0 .. n-1.
Corners(draws) == {n \in draws : n = 0 \/ n + 1 = Cardinality(draws)}

\* Decoy-loop draws: the offsets -5, -1 and +1 (offset 0), +1, +2.
DecoyDraws ==
  {[k |-> 0, up |-> TRUE], [k |-> 5, up |-> FALSE], [k |-> 5, up |-> TRUE],
   [k |-> 6, up |-> TRUE], [k |-> 7, up |-> TRUE]}

DecoyRuns == UNION {[1 .. n -> DecoyDraws] : n \in 2 .. MaxDecoyDraws}

\* The runs the decoy loop reads to the end and then leaves.
Consumed(answer, run) ==
  /\ Len(WrongAnswersLoop(<<>>, answer, run)) = 2
  /\ Len(WrongAnswersLoop(<<>>, answer, SubSeq(run, 1, Len(run) - 1))) < 2

\* The operation and the corner operands of a wave.
MathCorners(wave) ==
  UNION {UNION {{[op |-> op, r1 |-> r1, r2 |-> r2] :
                   r2 \in Corners(SecondDraws(Operations(wave)[op + 1], MaxNum(wave), r1))} :
                r1 \in Corners(FirstDraws(Operations(wave)[op + 1], MaxNum(wave)))} :
         op \in RandomInt(Len(Operations(wave)))}

\* Math draws: every run of decoy draws with the plain shuffle, every
\* shuffle with the plain decoy draws.
GenMathDraws(wave) ==
  UNION {{d \in [type : {0}, op : {c.op}, r1 : {c.r1}, r2 : {c.r2},
                 decoys : {run \in DecoyRuns :
                             Consumed(MathOperands(Operations(wave)[c.op + 1],
                                                   c.r1, c.r2).answer, run)},
                 j2 : RandomInt(3), j1 : RandomInt(2), q : {0}] :
            d.decoys = PlainDecoys \/ (d.j2 = 2 /\ d.j1 = 0)} :
         c \in MathCorners(wave)}

\* Quiz and english draws: every question of the pool, every shuffle.
GenPoolDraws(mode, wave) ==
  [type : {0}, op : {0}, r1 : {0}, r2 : {0}, decoys : {<<>>},
   j2 : RandomInt(3), j1 : RandomInt(2),
   q : RandomInt(Len(IF mode = "quiz" THEN QuizPool(wave) ELSE EnglishPool(wave)))]

\* Every type draw with the plain question.
GenTypeDraws(mode, wave) ==
  {[PlainDraw(mode) EXCEPT !.type = t] : t \in RandomInt(Len(TypePool(wave)))}

GenDraws(mode, wave) ==
  {d \in (IF mode = "math" THEN GenMathDraws(wave) ELSE GenPoolDraws(mode, wave))
           \cup GenTypeDraws(mode, wave) :
     RobotDrawOk(mode, wave, d)}

\* The state of such a session but for generator: mode, wave and the
\* draws d of the enemy of the list.
GenSession(mode, wave, d) ==
  /\ build = "enhanced"
  /\ gameState =
       [score |-> PointsPerCombo * KillsPerWave * (wave - 1),
        wave |-> wave,
        health |-> MaxHealthEnhanced,
        maxHealth |-> MaxHealthEnhanced,
        combo |-> IF wave = 1 THEN 1 ELSE 2,
        kills |-> KillsPerWave * (wave - 1),
        isRunning |-> TRUE,
        isPaused |-> FALSE,
        mode |-> mode]
  /\ robots = <<Robot(mode, wave, d)>>
  /\ pickups = <<>>
  /\ spawnTimer = 0
  /\ spawnInterval =
       Max(SpawnFloorEnhanced, InitialSpawnInterval - SpawnIntervalStep * (wave - 1))
  /\ adSession = [NewAdSession EXCEPT !.adsWatched = wave \div WaveAdInterval]
  /\ extraLifeOfferShown = FALSE
  /\ timers = <<>>
  /\ ui = [InitialUi EXCEPT !.startScreen = FALSE,
                           !.currentQuestion = DisplayText("AIM TO SCAN")]
  /\ lastFrame = [NewFrame EXCEPT !.rendered = TRUE,
                                  !.playerPos = <<Origin>>,
                                  !.threatList = <<1>>]
  /\ camera = Origin
  /\ particles = {}
  /\ bullets = {}
  /\ enemy = <<>>
  /\ physics = Grounded
  /\ adCalls = IF wave >= WaveAdInterval
               THEN [AdRequest("interstitial", "interstitial") EXCEPT
                       !.open = FALSE, !.onComplete = 1]
               ELSE NoAdCalls

InitGen ==
  \E mode \in Modes, wave \in GenWaves :
    \E d \in GenDraws(mode, wave) :
      /\ generator = NoCall
      /\ GenSession(mode, wave, d)

\* A shoot input within the wave of the initial state.
GenShoot ==
  \E hits \in SUBSET (1 .. Len(robots)), part \in Parts :
    LET w == onShoot(World, hits, part, FALSE, PlainDecays)
    IN  /\ w.gs.kills <= KillsPerWave * (gameState.wave - 1) + GenKills
        /\ Step(w)

\* A frame one or two seconds after the previous one.
GenFrame ==
  \E deltaTime \in DeltaTimes \cup LongDeltaTimes, near \in SUBSET (1 .. Len(robots)) :
    LET w == animate(World, deltaTime, Still, PlainRobot, near, {}, {})
    IN  Len(w.robots) <= GenRobots /\ Step(w)

NextGen ==
  \/ GenShoot
  \/ GenFrame

SpecGen == InitGen /\ [][NextGen]_vars

\* The decoy loop of MathGenerator.generate and of generateMathQuestion,
\* one iteration per step.  The initial states are states in which
\* spawnRobot() constructs the second enemy of a math session and the
\* generator has just computed the answer: in the enhanced build at a wave
\* at which the operations or the operand range change, in the basic build
\* after startGame.
DecoyWaves == {1, 2, 3, 6, 10}

InitDecoy ==
  \/ \E wave \in DecoyWaves :
       /\ GenSession("math", wave, PlainDraw("math"))
       /\ \E answer \in MathAnswers(wave) : generator = EnterLoop(answer)
  \/ /\ build = "basic"
     /\ gameState = resetGameState(InitialGameState("basic"))
     /\ robots = <<RobotBasic(PlainDraw("math"))>>
     /\ pickups = <<>>
     /\ spawnTimer = 0
     /\ spawnInterval = InitialSpawnInterval
     /\ adSession = NewAdSession
     /\ extraLifeOfferShown = FALSE
     /\ timers = <<>>
     /\ ui = [InitialUi EXCEPT !.startScreen = FALSE]
     /\ lastFrame = NewFrame
     /\ camera = Origin
     /\ particles = {}
     /\ bullets = {}
     /\ enemy = <<>>
     /\ adCalls = NoAdCalls
     /\ physics = Grounded
     /\ \E answer \in MathAnswersBasic : generator = EnterLoop(answer)

\* The statements of the loop alone: every variable but generator stays as
\* it is.
Loop(g) ==
  /\ generator' = g
  /\ UNCHANGED <<build, gameState, robots, pickups, spawnTimer, spawnInterval,
                 adSession, extraLifeOfferShown, timers, ui, lastFrame,
                 camera, particles, bullets, enemy, adCalls, physics>>

\* The body of the loop with candidates that all lie below the answer.
DecoyIterationDown(g, k, up) ==
  [g EXCEPT !.wrongAnswers = PushWrongDown(@, g.answer, k, up)]

\* The body of the loop, on the locals g of the call.
DecoyIteration(g, k, up) ==
  [g EXCEPT !.wrongAnswers = PushWrong(@, g.answer, k, up)]

\* One iteration: while (wrongAnswers.length < 2) with its two draws.
DecoyDraw ==
  /\ generator.pc = "loop"
  /\ Len(generator.wrongAnswers) < 2
  /\ \E k \in RandomInt(10), up \in BOOLEAN : Loop(DecoyIteration(generator, k, up))

\* The loop test fails: the call goes on to the question text.
DecoyDone ==
  /\ generator.pc = "loop"
  /\ Len(generator.wrongAnswers) >= 2
  /\ Loop(LeaveLoop(generator))

NextDecoy ==
  \/ DecoyDraw
  \/ DecoyDone

SpecDecoy == InitDecoy /\ [][NextDecoy]_vars

\* Fair sampling: a loop that can push a decoy does not go on for ever
\* without pushing one.
SpecDecoyFair == SpecDecoy /\ WF_vars(DecoyDraw) /\ WF_vars(DecoyDone)

\* Enemy types over a long session of either build: a player who hits the
\* correct answer, two-second frames, no attacks, and new enemies of every
\* type the constructor can draw at the wave.
TypeFrame ==
  /\ build = "enhanced"
  /\ \E deltaTime \in LongDeltaTimes, d \in GenTypeDraws(gameState.mode, gameState.wave) :
       LET w == animate(World, deltaTime, Still, Robot(gameState.mode, gameState.wave, d),
                        {}, {}, {})
       IN  Len(w.robots) <= MaxRobots /\ Step(w)

TypeFrameBasic ==
  /\ build = "basic"
  /\ \E deltaTime \in LongDeltaTimes, d \in BasicDraws, closest \in 0 .. AdsRobots :
       LET w == animateBasic(World, deltaTime, Still, RobotBasic(d), {}, {}, closest)
       IN  ClosestOk(w.robots, closest) /\ Len(w.robots) <= MaxRobots /\ Step(w)

NextTypes ==
  \/ StartGame
  \/ LongShoot
  \/ TypeFrame
  \/ InterstitialAdDone
  \/ StartGameAnyType
  \/ LongShootBasic
  \/ TypeFrameBasic

SpecTypes == InitLong /\ [][NextTypes]_vars

\* Attacks of the three enemy types: sessions of the math mode that are at
\* wave 3 or at wave 6, frames 1.5 s apart with the player within attack
\* range of every enemy or of none, new enemies of every type of the wave.
AttackWaves == {3, 6}

AttackDeltaTimes == {15}

InitAttack ==
  /\ InitGen
  /\ gameState.mode = "math"
  /\ gameState.wave \in AttackWaves
  /\ \E d \in GenTypeDraws("math", gameState.wave) :
       robots = <<Robot("math", gameState.wave, d)>>

AttackFrame ==
  \E deltaTime \in AttackDeltaTimes, near \in {{}, 1 .. Len(robots)},
     d \in GenTypeDraws(gameState.mode, gameState.wave) :
    Step(animate(World, deltaTime, Still, Robot(gameState.mode, gameState.wave, d),
                 near, {}, {}))

NextAttack ==
  \/ GenShoot
  \/ AttackFrame

SpecAttack == InitAttack /\ [][NextAttack]_vars

-----------------------------------------------------------------------------
(* Properties                                                              *)

\* The zones of enemy r that carry its correct answer.
CorrectZones(r) == {part \in Parts : r.answers[part] = r.correctAnswer}

\* What the claims call the answers of an enemy.
Facts(r) == <<r.correctAnswer, r.answers>>

\* A shoot input with these hits is processed and resolves to robots[i].
Resolves(hits, i) ==
  /\ gameState.isRunning
  /\ ~gameState.isPaused
  /\ i = FirstHit(robots, hits)
  /\ i # 0

\* The zone part of robots[i] carries its correct answer.
IsCorrect(i, part) == robots[i].answers[part] = robots[i].correctAnswer

\* C1: every enemy of the list has exactly one zone that carries its
\* correct answer, and neither onShoot (with checkHit) nor the update loop
\* of a frame (update, attackPlayer) changes the answers or the correct
\* answer of an enemy of the list.
C1_OneCorrectZone ==
  /\ \A i \in 1 .. Len(robots) : Cardinality(CorrectZones(robots[i])) = 1
  /\ \A hits \in SUBSET (1 .. Len(robots)), part \in Parts, drop \in BOOLEAN :
       LET w == onShoot(World, hits, part, drop, PlainDecays)
       IN  /\ Len(w.robots) = Len(robots)
           /\ \A i \in 1 .. Len(robots) : Facts(w.robots[i]) = Facts(robots[i])
  /\ \A deltaTime \in DeltaTimes \cup LongDeltaTimes, near \in SUBSET (1 .. Len(robots)) :
       LET spawned == spawnStep(World, deltaTime, PlainRobot)
           updated == updateRobots(spawned, 1, deltaTime, near)
       IN  /\ Len(updated.robots) = Len(spawned.robots)
           /\ \A i \in 1 .. Len(robots) : Facts(updated.robots[i]) = Facts(robots[i])

\* An english enemy of wave 8 with its correct answer on the knee, shot dead.
C1_Witness ==
  /\ gameState.mode = "english"
  /\ gameState.wave = 8
  /\ \E i \in 1 .. Len(robots) :
       robots[i].dying /\ robots[i].answers.knee = robots[i].correctAnswer

\* C2: a processed shot on the zone with the correct answer of an enemy
\* that is not dying makes the enemy dying, adds 100 times the combo of
\* before the hit to the score, sets combo to min(combo + 1, 10) and adds 1
\* to kills.
C2_CorrectHit ==
  \A hits \in SUBSET (1 .. Len(robots)), part \in Parts, drop \in BOOLEAN :
    LET i == FirstHit(robots, hits)
        w == onShoot(World, hits, part, drop, PlainDecays)
    IN  (Resolves(hits, i) /\ IsCorrect(i, part)) =>
          /\ ~robots[i].dying
          /\ w.robots[i].dying
          /\ w.gs.score = gameState.score + 100 * gameState.combo
          /\ w.gs.combo = (IF gameState.combo + 1 < 10 THEN gameState.combo + 1 ELSE 10)
          /\ w.gs.kills = gameState.kills + 1

\* Three correct hits from combo 1: score 100 + 200 + 300, combo 4.
C2_Witness ==
  /\ gameState.kills = 3
  /\ gameState.score = 600
  /\ gameState.combo = 4
  /\ \E i \in 1 .. Len(robots) : robots[i].dying

\* C3: a processed shot on a zone with a decoy answer sets combo to 1 and
\* leaves score, kills, wave, health, spawnInterval and the enemy (alive,
\* not dying) as they were.
C3_DecoyHit ==
  \A hits \in SUBSET (1 .. Len(robots)), part \in Parts, drop \in BOOLEAN :
    LET i == FirstHit(robots, hits)
        w == onShoot(World, hits, part, drop, PlainDecays)
    IN  (Resolves(hits, i) /\ ~IsCorrect(i, part)) =>
          /\ w.gs.combo = 1
          /\ w.gs.score = gameState.score
          /\ w.gs.kills = gameState.kills
          /\ w.gs.wave = gameState.wave
          /\ w.gs.health = gameState.health
          /\ w.spawnInterval = spawnInterval
          /\ robots[i].alive /\ ~robots[i].dying
          /\ w.robots[i].alive /\ ~w.robots[i].dying

\* Three correct hits and then a decoy hit: combo back to 1, score 600.
C3_Witness ==
  /\ gameState.kills = 3
  /\ gameState.score = 600
  /\ gameState.combo = 1
  /\ \E i \in 1 .. Len(robots) : robots[i].alive /\ ~robots[i].dying

C5_WaveAdvance ==
  \A hits \in SUBSET (1 .. Len(robots)), part \in Parts, drop \in BOOLEAN :
    LET i == FirstHit(robots, hits)
        w == onShoot(World, hits, part, drop, PlainDecays)
        correct == Resolves(hits, i) /\ IsCorrect(i, part)
        fifth == (gameState.kills + 1) % 5 = 0
    IN  /\ (correct /\ fifth) =>
             /\ w.gs.wave = gameState.wave + 1
             /\ w.spawnInterval = (IF spawnInterval - 2 > 6 THEN spawnInterval - 2 ELSE 6)
             /\ w.gs.health = (IF gameState.health + 20 < gameState.maxHealth
                               THEN gameState.health + 20
                               ELSE gameState.maxHealth)
        /\ (correct /\ ~fifth) =>
             /\ w.gs.wave = gameState.wave
             /\ w.spawnInterval = spawnInterval
             /\ w.gs.health = gameState.health
        /\ ~correct => w.gs.wave = gameState.wave

\* The fifth kill of a player who has taken two attacks: wave 2, 1.8 s,
\* health 76 + 20.
C5_Witness ==
  /\ gameState.kills = 5
  /\ gameState.wave = 2
  /\ spawnInterval = 18
  /\ gameState.health = 96

\* The floor of spawnInterval: 0.6 s in the enhanced build, 0.8 s in the
\* basic build.
SpawnFloor == IF build = "basic" THEN 8 ELSE 6

\* C6 (as amended): spawnInterval is 2.0 s after startGame, never grows
\* during a session, becomes max(floor, spawnInterval - 0.2 s) at each wave
\* advance and changes at no other step, and is at least its floor in every
\* state.
C6_SpawnInterval ==
  /\ [](spawnInterval >= SpawnFloor /\ spawnInterval > 0)
  /\ [][/\ (~gameState.isRunning /\ gameState'.isRunning) => spawnInterval' = 20
        /\ (gameState.isRunning /\ gameState'.isRunning) => spawnInterval' <= spawnInterval
        /\ (gameState'.wave = gameState.wave + 1) =>
             spawnInterval' = (IF spawnInterval - 2 > SpawnFloor
                               THEN spawnInterval - 2
                               ELSE SpawnFloor)
        /\ (gameState.isRunning /\ gameState'.wave = gameState.wave) =>
             spawnInterval' = spawnInterval]_vars

\* C6 as the claim states it: spawnInterval decreases by 0.2 s at each wave
\* advance.
C6_AsWritten ==
  [][gameState'.wave = gameState.wave + 1 => spawnInterval' = spawnInterval - 2]_vars

\* The enhanced build in wave 9, one wave advance after the floor was met.
C6_Witness ==
  /\ build = "enhanced"
  /\ gameState.wave = 9
  /\ gameState.kills = 40
  /\ spawnInterval = 6

\* C7: health is at most maxHealth in every reachable state.
C7_HealthCap == gameState.health <= gameState.maxHealth

\* A revived player healed back to full health.
C7_Witness ==
  /\ adSession.revivesUsed = 1
  /\ gameState.isRunning
  /\ gameState.health = gameState.maxHealth

\* C8: health is at least 0 in every reachable state.
C8_HealthNonNegative == gameState.health >= 0

\* C9: an attack that leaves health <= 0 ends the run in the same call, and
\* in every state between two events a running game has health > 0.
C9_DeathEndsRun ==
  /\ gameState.isRunning => gameState.health > 0
  /\ \A i \in 1 .. Len(robots) :
       LET w == attackPlayer(World, i)
       IN  w.gs.health <= 0 => ~w.gs.isRunning

\* A revived player who has taken an attack since.
C9_Witness ==
  /\ adSession.revivesUsed = 1
  /\ gameState.isRunning
  /\ gameState.health = 38

\* C10: no frame calls update() of an enemy after the run has ended.
C10_NoUpdateWhenStopped == lastFrame.stoppedUpdates = 0

\* Positions and displacements the position operators are checked on: the
\* arena's corners, walls and centre, and steps of up to ArenaStep metres.
ArenaStep == 6

Coordinates == {-RobotBoundary, -PlayerBoundary, 0, PlayerBoundary, RobotBoundary}

Positions == [x : Coordinates, z : Coordinates]

Steps == [x : {-ArenaStep, 0, ArenaStep}, z : {-ArenaStep, 0, ArenaStep}]

\* C11: a dying enemy is never resolved by a shot and never attacks: a ray
\* that intersects only dying enemies changes nothing, the enemy a shot
\* resolves is not dying, a shot that adds a kill turns one enemy that was
\* not dying into a dying one, and Robot.update of a dying enemy deals no
\* damage, sets no cooldown and leaves its position where it was.
C11_DyingIsInert ==
  /\ \A hits \in SUBSET (1 .. Len(robots)), part \in Parts, drop \in BOOLEAN :
       LET i == FirstHit(robots, hits)
           w == onShoot(World, hits, part, drop, PlainDecays)
       IN  /\ (\A j \in hits : robots[j].dying) =>
                 /\ w.gs = gameState
                 /\ w.robots = robots
                 /\ w.pickups = pickups
           /\ i # 0 => ~robots[i].dying
           /\ w.gs.kills # gameState.kills =>
                 /\ w.gs.kills = gameState.kills + 1
                 /\ \A j \in 1 .. Len(robots) :
                      (robots[j].dying # w.robots[j].dying) <=> (j = i)
  /\ \A i \in 1 .. Len(robots) :
       robots[i].dying =>
         \A deltaTime \in DeltaTimes \cup LongDeltaTimes, inRange \in BOOLEAN :
           LET w == update(World, i, deltaTime, inRange)
           IN  /\ w.gs = gameState
               /\ w.robots[i].attackCooldown = robots[i].attackCooldown
               /\ w.robots[i].dying
               /\ \A position \in Positions, step \in Steps :
                    updatePosition(robots[i], position, step) = position

\* A running game with a dying enemy, one second into its countdown, ahead
\* of an enemy that is not dying.
C11_Witness ==
  /\ gameState.isRunning
  /\ Len(robots) = 2
  /\ robots[1].dying /\ robots[1].dyingTimer = 10
  /\ ~robots[2].dying

\* C12: the lifecycle of an enemy is alive, dying, removed.  A shot makes
\* at most the enemy it resolves dying, and only on its correct answer; no
\* shot and no update makes a dying enemy not dying or an enemy that is not
\* dying dying; a frame of a running, unpaused game removes exactly the
\* enemies whose dying time exceeds 1.0 s after the frame's deltaTime, so
\* that between two events the list holds only alive enemies with a dying
\* time of at most 1.0 s.
C12_Lifecycle ==
  /\ \A i \in 1 .. Len(robots) :
       /\ robots[i].alive
       /\ robots[i].dyingTimer <= 10
       /\ ~robots[i].dying => robots[i].dyingTimer = 0
  /\ \A hits \in SUBSET (1 .. Len(robots)), part \in Parts, drop \in BOOLEAN :
       LET i == FirstHit(robots, hits)
           w == onShoot(World, hits, part, drop, PlainDecays)
       IN  /\ Len(w.robots) = Len(robots)
           /\ \A j \in 1 .. Len(robots) :
                /\ robots[j].dying => w.robots[j].dying
                /\ (~robots[j].dying /\ w.robots[j].dying) =>
                     (j = i /\ Resolves(hits, i) /\ IsCorrect(i, part))
  /\ (gameState.isRunning /\ ~gameState.isPaused) =>
       \A deltaTime \in DeltaTimes \cup LongDeltaTimes, near \in SUBSET (1 .. Len(robots)),
          reach \in SUBSET (1 .. Len(pickups)) :
         LET spawned == spawnStep(World, deltaTime, PlainRobot)
             updated == updateRobots(spawned, 1, deltaTime, near)
             w == animate(World, deltaTime, Still, PlainRobot, near, reach, {})
             gone == {j \in 1 .. Len(robots) :
                        robots[j].dying /\ robots[j].dyingTimer + deltaTime > 10}
         IN  /\ \A j \in 1 .. Len(robots) :
                  /\ updated.robots[j].dying = robots[j].dying
                  /\ updated.robots[j].alive = (j \notin gone)
             /\ Len(w.robots) = Len(spawned.robots) - Cardinality(gone)
             /\ \A j \in 1 .. Len(w.robots) :
                  w.robots[j].alive /\ w.robots[j].dyingTimer <= 10

\* A running game after its first kill, the killed enemy removed: no enemy
\* of the list is dying.
C12_Witness ==
  /\ gameState.isRunning
  /\ gameState.kills = 1
  /\ Len(robots) = 2
  /\ \A i \in 1 .. Len(robots) : ~robots[i].dying

\* C13: a shot changes at most one enemy, the first one of the list that
\* is not dying among those the ray intersects; every other enemy is left
\* as it was, and a ray that intersects no enemy changes nothing.
C13_OneEnemyPerShot ==
  \A hits \in SUBSET (1 .. Len(robots)), part \in Parts, drop \in BOOLEAN :
    LET struck == {j \in hits : ~robots[j].dying}
        w == onShoot(World, hits, part, drop, PlainDecays)
        changed == {j \in 1 .. Len(robots) : w.robots[j] # robots[j]}
    IN  /\ Len(w.robots) = Len(robots)
        /\ \A j \in changed : j \in struck /\ \A k \in struck : j <= k
        /\ Cardinality(changed) <= 1
        /\ hits = {} => w = World
        /\ struck = {} => w = World

\* A shot whose ray could intersect two enemies has just killed the first:
\* the second is as it was created.
C13_Witness ==
  /\ gameState.isRunning
  /\ gameState.kills = 1
  /\ Len(robots) = 2
  /\ robots[1].dying /\ robots[1].dyingTimer = 0
  /\ ~robots[2].dying /\ robots[2].attackCooldown = 0

\* C14: an enemy's update deals damage only when the deltaTime its updates
\* have gone through since its last attack, this one included, is at
\* least 1.5 s, the player within range or not; an attack leaves
\* attackCooldown at 1.5 s, and while attackCooldown is positive it is 1.5 s
\* less the deltaTime gone through since the attack.
C14_AttackCooldown ==
  \A i \in 1 .. Len(robots) :
    /\ robots[i].attackCooldown > 0 =>
          robots[i].attackCooldown + robots[i].sinceAttack = 15
    /\ \A deltaTime \in ShortDeltaTimes \cup LongDeltaTimes, inRange \in BOOLEAN :
         LET w == update(World, i, deltaTime, inRange)
         IN  w.gs.health # gameState.health =>
               /\ robots[i].sinceAttack + deltaTime >= 15
               /\ w.robots[i].attackCooldown = 15
               /\ w.robots[i].sinceAttack = 0

\* The first enemy has just attacked for the second time, in the frame that
\* spawned the second enemy.
C14_Witness ==
  /\ gameState.isRunning
  /\ gameState.kills = 0
  /\ gameState.health = 76
  /\ spawnTimer = 0
  /\ Len(robots) = 2
  /\ robots[1].attackCooldown = 15 /\ robots[1].sinceAttack = 0

\* C15: the player stays within 35 m of the centre on both axes and an
\* enemy within 45 m, after the constructor, every update, every respawn
\* and every updatePlayerMovement.
C15_ArenaBounds ==
  /\ camera.x \in -PlayerBoundary .. PlayerBoundary
  /\ camera.z \in -PlayerBoundary .. PlayerBoundary
  /\ \A i \in 1 .. Len(enemy) :
       /\ enemy[i].x \in -RobotBoundary .. RobotBoundary
       /\ enemy[i].z \in -RobotBoundary .. RobotBoundary

\* The player is at the east limit of its range and an enemy at the east
\* wall, where both clamps have cut a coordinate.
C15_Witness ==
  /\ camera.x = PlayerBoundary
  /\ enemy # <<>>
  /\ enemy[1].x = RobotBoundary

\* C16: whatever the previous session left, startGame leaves score 0,
\* wave 1, full health, combo 1, no kill, a running game, spawnTimer 0 and
\* a spawn interval of 2 s, no pickup, no particle, no bullet trail, and an
\* enemy list that holds one enemy, as its constructor made it.
C16_StartGameResets ==
  LET w == startGame(World, PlainDraw(gameState.mode))
  IN  /\ w.gs.score = 0
      /\ w.gs.wave = 1
      /\ w.gs.health = w.gs.maxHealth
      /\ w.gs.combo = 1
      /\ w.gs.kills = 0
      /\ w.gs.isRunning
      /\ w.spawnTimer = 0
      /\ w.spawnInterval = 20
      /\ w.pickups = <<>>
      /\ w.particles = {}
      /\ w.bullets = {}
      /\ Len(w.robots) = 1
      /\ w.robots[1] = Robot(gameState.mode, 1, PlainDraw(gameState.mode))
      /\ w.robots[1].alive /\ ~w.robots[1].dying
      /\ w.robots[1].dyingTimer = 0 /\ w.robots[1].attackCooldown = 0

\* The restart button is shown after a session that has left a dying enemy
\* and another one, a pickup, a particle and a bullet trail, with a score
\* and a health that are not the initial ones.
C16_Witness ==
  /\ ui.gameoverScreen
  /\ gameState.kills = 1 /\ gameState.score = 100 /\ gameState.health <= 0
  /\ Len(robots) = 3 /\ robots[1].dying /\ robots[2].attackCooldown > 0
  /\ Len(pickups) = 1
  /\ particles # {}
  /\ bullets # {}
  /\ spawnTimer > 0

\* C17: a frame of a running game that is not paused moves the player
\* first; every enemy update that reads the player's position reads the
\* moved one; the enemies that are no longer alive are removed; the
\* question display and the threat indicator work on the list that is left.
C17_FrameOrder ==
  gameState.isRunning /\ ~gameState.isPaused =>
    \A deltaTime \in DeltaTimes, movement \in WalkMovements,
       near \in SUBSET (1 .. Len(robots) + 1), aimed \in SUBSET (1 .. MaxRobots) :
      LET w == animate(World, deltaTime, movement, PlainRobot, near, {}, aimed)
          i == FirstHit(w.robots, aimed)
      IN  /\ w.camera = updatePlayerMovement(camera, movement)
          /\ w.frame.playerPos \in {<<>>, <<w.camera>>}
          /\ (\E j \in 1 .. Len(robots) : ~robots[j].dying) => w.frame.playerPos = <<w.camera>>
          /\ \A j \in 1 .. Len(w.robots) : w.robots[j].alive
          /\ w.frame.threatList = <<Len(w.robots)>>
          /\ w.ui.currentQuestion = DisplayText("INCOMING...") <=> w.robots = <<>>
          /\ i # 0 => w.ui.currentQuestion = DisplayQuestion(w.robots[i])
          /\ i = 0 /\ w.robots # <<>> => w.ui.currentQuestion = DisplayText("AIM TO SCAN")

\* A frame has moved the player off the centre, an enemy has read that
\* position, the enemy killed earlier has been removed, and the display
\* shows the question of the enemy that is left.
C17_Witness ==
  /\ gameState.isRunning
  /\ gameState.kills = 1
  /\ camera # Origin
  /\ lastFrame.rendered
  /\ lastFrame.playerPos = <<camera>>
  /\ Len(robots) = 1 /\ ~robots[1].dying
  /\ lastFrame.threatList = <<1>>
  /\ ui.currentQuestion = DisplayQuestion(robots[1])

\* C20: an attack takes the damage of the enemy's type off the health (12,
\* 10 or 25) and leaves attackCooldown at 1.5 s; if the health is then at
\* or below zero the run ends and the enemy is not respawned, otherwise the
\* run goes on and the enemy is respawned, at a point within the arena.
C20_Attack ==
  gameState.isRunning =>
    \A i \in 1 .. Len(robots) :
      LET w == attackPlayer(World, i)
          damage == CASE robots[i].type = "normal" -> 12
                      [] robots[i].type = "fast" -> 10
                      [] robots[i].type = "heavy" -> 25
      IN  /\ w.gs.health = gameState.health - damage
          /\ w.robots[i].attackCooldown = 15
          /\ w.gs.health <= 0 =>
                /\ ~w.gs.isRunning
                /\ w.ui.reviveModal \/ w.ui.gameoverScreen
                /\ w.frame.respawns = lastFrame.respawns
          /\ w.gs.health > 0 =>
                /\ w.gs.isRunning
                /\ w.frame.respawns = lastFrame.respawns + 1
                /\ \A offset \in SpawnOffsets :
                     LET position == spawnPosition(camera, offset)
                     IN  /\ position.x \in -45 .. 45
                         /\ position.z \in -45 .. 45

\* A frame in which a fast enemy and a normal one have attacked and have
\* been respawned, and a third enemy has then brought the health to zero or
\* below and has not.
C20_Witness ==
  /\ ~gameState.isRunning
  /\ gameState.health <= 0
  /\ ui.reviveModal
  /\ lastFrame.respawns = 2
  /\ Len(robots) = 3
  /\ robots[1].type = "fast" /\ robots[1].attackCooldown = 15
  /\ robots[2].type = "normal" /\ robots[2].attackCooldown = 15
  /\ robots[3].attackCooldown = 15

C19_GateHoldsGameplay ==
  [][/\ ui.waveAdOverlay /\ ui'.waveAdOverlay =>
          /\ robots' = robots
          /\ pickups' = pickups
          /\ spawnTimer' = spawnTimer
          /\ gameState'.score = gameState.score
          /\ gameState'.wave = gameState.wave
          /\ gameState'.health = gameState.health
          /\ gameState'.combo = gameState.combo
          /\ gameState'.kills = gameState.kills
     /\ ui.waveAdOverlay /\ ~ui'.waveAdOverlay => ~gameState'.isPaused]_vars

\* C21: a shoot input that arrives while the game is not running or is
\* paused changes nothing, whether it is a click on the canvas, the end of
\* a tap or a press of the fire button: score, combo, kills, wave, health,
\* the enemies, the pickups, the bullet trails and everything else stay as
\* they were, for every ray and zone.
C21_BlockedShootIsNoOp ==
  (~gameState.isRunning \/ gameState.isPaused) =>
    \A hits \in SUBSET (1 .. Len(robots)), part \in Parts, drop \in BOOLEAN,
       flag \in BOOLEAN :
      /\ onShoot(World, hits, part, drop, PlainDecays) = World
      /\ onCanvasClick(World, flag, hits, part, drop, PlainDecays) = World
      /\ onTouchEnd(World, flag, hits, part, drop, PlainDecays) = World
      /\ onFireButtonPress(World, hits, part, drop, PlainDecays) = World

\* A running game is paused from the pause menu while an enemy that a shot
\* could resolve is in the list, after a kill.
C21_Witness ==
  /\ gameState.isRunning
  /\ gameState.isPaused
  /\ ui.pauseMenu
  /\ gameState.kills = 1
  /\ Len(robots) = 2
  /\ ~robots[2].dying

\* C22: every division question is exact: for every pair of draws the
\* generator can make at the wave of the state, a = b * answer with b >= 2
\* and answer >= 2, so that a / b is the integer answer; and every enemy
\* of the list that carries a division question carries such a one.
C22_DivisionExact ==
  gameState.mode = "math" =>
    /\ \A k \in 1 .. Len(Operations(gameState.wave)) :
         Operations(gameState.wave)[k] = "/" =>
           \A r1 \in FirstDraws("/", MaxNum(gameState.wave)) :
             \A r2 \in SecondDraws("/", MaxNum(gameState.wave), r1) :
               LET o == MathOperands("/", r1, r2)
               IN  /\ o.a = o.b * o.answer
                   /\ o.b >= 2
                   /\ o.answer >= 2
                   /\ o.a % o.b = 0 /\ o.a \div o.b = o.answer
    /\ \A i \in 1 .. Len(robots) :
         robots[i].question[2] = "/" =>
           /\ robots[i].question[1] = robots[i].question[3] * robots[i].correctAnswer
           /\ robots[i].question[3] >= 2
           /\ robots[i].correctAnswer >= 2

\* An enemy of wave 6 carries the division question 26 / 2, answer 13.
C22_Witness ==
  /\ gameState.mode = "math"
  /\ gameState.wave = 6
  /\ Len(robots) = 1
  /\ robots[1].question = <<26, "/", 2>>
  /\ robots[1].correctAnswer = 13

\* The values of the three zones of enemy r.
ZoneValues(r) == {r.answers[part] : part \in Parts}

\* C23: the decoys of a math question are positive, differ from the correct
\* answer and from each other: so are the values the decoy loop holds after
\* every iteration, the loop is left with two of them, and the three zones
\* of an enemy of a math session carry three different positive values.
C23_DecoysAdmissible ==
  /\ \A i \in 1 .. Len(generator.wrongAnswers) :
       /\ generator.wrongAnswers[i] > 0
       /\ generator.wrongAnswers[i] # generator.answer
       /\ \A j \in 1 .. Len(generator.wrongAnswers) :
            i # j => generator.wrongAnswers[i] # generator.wrongAnswers[j]
  /\ generator.pc = "done" => Len(generator.wrongAnswers) = 2
  /\ \A i \in 1 .. Len(robots) :
       /\ Cardinality(ZoneValues(robots[i])) = 3
       /\ \A v \in ZoneValues(robots[i]) : v > 0

\* The loop has been left with a decoy below the answer 3 and one above.
C23_Witness ==
  /\ generator.pc = "done"
  /\ generator.answer = 3
  /\ generator.wrongAnswers = <<1, 7>>

\* The values one iteration of the decoy loop can push for an answer, with
\* no decoy chosen yet.
Admissible(answer) ==
  {DecoyIteration(EnterLoop(answer), c[1], c[2]).wrongAnswers[1] :
     c \in {c \in RandomInt(10) \X BOOLEAN :
              DecoyIteration(EnterLoop(answer), c[1], c[2]).wrongAnswers # <<>>}}

\* C24: the decoy loop ends for every answer the generator reaches it
\* with, the answer 1 of a subtraction included: the offset window holds at
\* least two admissible values, and under fair sampling the loop is left.
C24_LoopTerminates ==
  /\ [](generator.pc # "none" => Cardinality(Admissible(generator.answer)) >= 2)
  /\ <>(generator.pc = "done")

\* The loop has been left for the answer 1, with the decoys 2 and 5.
C24_Witness ==
  /\ generator.pc = "done"
  /\ generator.answer = 1
  /\ generator.wrongAnswers = <<2, 5>>

\* The waves the operation table is checked at.
MaxWave == 12

\* The set of the operations of a wave.
OperationSet(wave) == {Operations(wave)[k] : k \in 1 .. Len(Operations(wave))}

\* C25: the operation of a math question depends on the wave: addition
\* only at wave 1, subtraction only from wave 2, multiplication only from
\* wave 3, division only from wave 6, squaring only from wave 10; the
\* operations of a wave are among those of the next wave; and an enemy
\* created at the wave of the state carries an operation of that wave.
C25_OperationsByWave ==
  /\ OperationSet(1) = {"+"}
  /\ \A wave \in 1 .. MaxWave :
       /\ OperationSet(wave) \subseteq {"+", "-", "x", "/", "sq"}
       /\ "-" \in OperationSet(wave) => wave >= 2
       /\ "x" \in OperationSet(wave) => wave >= 3
       /\ "/" \in OperationSet(wave) => wave >= 6
       /\ "sq" \in OperationSet(wave) => wave >= 10
       /\ OperationSet(wave) \subseteq OperationSet(wave + 1)
  /\ gameState.mode = "math" =>
       \A i \in 1 .. Len(robots) : robots[i].question[2] \in OperationSet(gameState.wave)

\* An enemy of wave 10 carries a squaring question, 16 squared.
C25_Witness ==
  /\ gameState.mode = "math"
  /\ gameState.wave = 10
  /\ Len(robots) = 1
  /\ robots[1].question = <<16, "sq", 2>>
  /\ robots[1].correctAnswer = 256

\* C26: the type of an enemy follows the wave: every enemy of the list is
\* normal at waves 1 and 2, a fast enemy is in the list only at wave 3 or
\* later, a heavy one only at wave 6 or later.
C26_TypeByWave ==
  \A i \in 1 .. Len(robots) :
    /\ gameState.wave <= 2 => robots[i].type = "normal"
    /\ robots[i].type = "fast" => gameState.wave >= 3
    /\ robots[i].type = "heavy" => gameState.wave >= 6

\* The health after n collections in one frame, from health h.
RECURSIVE Healed(_, _, _)
Healed(h, maxHealth, n) ==
  IF n = 0 THEN h ELSE Healed(Min(maxHealth, h + 20), maxHealth, n - 1)

\* C27: a pickup leaves the list only when the player collects it or when
\* startGame empties the list, never because time has passed.  A frame of
\* a running, unpaused game removes exactly the pickups within reach, of
\* whatever length the frame is, and each of them sets the health to
\* min(maxHealth, health + 20) once; a frame of a paused or stopped game
\* and a shot remove none.  A step that shortens the list is such a frame,
\* or startGame, which leaves the list empty.
C27_PickupLeaves ==
  /\ [](/\ \A deltaTime \in MixedDeltaTimes, near \in {{}, 1 .. Len(robots)},
               reach \in SUBSET (1 .. Len(pickups)) :
              LET w == animate(World, deltaTime, Still, PlainRobot, near, reach, {})
                  updated == updateRobots(spawnStep(World, deltaTime, PlainRobot),
                                          1, deltaTime, near)
              IN  IF gameState.isRunning /\ ~gameState.isPaused
                  THEN /\ Len(w.pickups) = Len(pickups) - Cardinality(reach)
                       /\ \A i \in 1 .. Len(w.pickups) : ~w.pickups[i].collected
                       /\ w.gs.health = Healed(updated.gs.health, gameState.maxHealth,
                                               Cardinality(reach))
                       /\ w.gs.health <= Max(updated.gs.health, gameState.maxHealth)
                  ELSE w.pickups = pickups /\ w.gs.health = gameState.health
        /\ \A hits \in SUBSET (1 .. Len(robots)), part \in Parts, drop \in BOOLEAN :
             LET w == onShoot(World, hits, part, drop, PlainDecays)
             IN  SubSeq(w.pickups, 1, Len(pickups)) = pickups
        /\ startGame(World, PlainDraw(gameState.mode)).pickups = <<>>)
  /\ [][Len(pickups') < Len(pickups) =>
          \/ /\ gameState.isRunning /\ ~gameState.isPaused
             /\ lastFrame'.rendered
             /\ gameState'.kills = gameState.kills
             /\ gameState'.health <= Max(gameState.health, gameState.maxHealth)
          \/ /\ ui.startScreen \/ ui.gameoverScreen
             /\ pickups' = <<>>
             /\ gameState' = resetGameState(gameState)]_vars

\* A frame has just collected the pickup of the first kill and has healed
\* a player whom three attacks had brought to 64: no pickup is left.
C27_Witness ==
  /\ gameState.isRunning
  /\ gameState.kills = 1
  /\ adSession.adsWatched = 0
  /\ gameState.health = 84
  /\ pickups = <<>>
  /\ lastFrame.rendered

\* C28: a press of the jump button sets velocityY to jumpForce only when
\* the game is running, not paused and the player is grounded; while the
\* player is airborne it changes nothing.  After the gravity step of a
\* frame playerY is at ground level or above it, and when the step reaches
\* or passes the ground playerY is the ground level, velocityY is 0 and
\* isGrounded is true; otherwise the step leaves isGrounded as it was.
C28_Jump ==
  /\ physics.playerY >= GroundLevel
  /\ physics.isGrounded => physics = Grounded
  /\ LET w == onJumpButtonPress(World)
     IN  /\ [w EXCEPT !.physics = physics] = World
         /\ w.physics # physics =>
               /\ gameState.isRunning /\ ~gameState.isPaused
               /\ physics.isGrounded
               /\ w.physics.velocityY = JumpForce
               /\ ~w.physics.isGrounded
               /\ w.physics.playerY = physics.playerY
         /\ ~physics.isGrounded => w.physics = physics
         /\ (gameState.isRunning /\ ~gameState.isPaused /\ physics.isGrounded) =>
               w.physics.velocityY = JumpForce
  /\ \A deltaTime \in JumpDeltaTimes \cup LongDeltaTimes :
       LET velocityY == physics.velocityY + Gravity * deltaTime
           playerY == physics.playerY + velocityY * deltaTime
           p == updatePlayerY(physics, deltaTime)
       IN  /\ p.playerY >= GroundLevel
           /\ playerY <= GroundLevel =>
                 p.playerY = GroundLevel /\ p.velocityY = 0 /\ p.isGrounded
           /\ playerY > GroundLevel =>
                 /\ p.playerY = playerY
                 /\ p.velocityY = velocityY
                 /\ p.isGrounded = physics.isGrounded

\* The player is airborne and falling, 1.25 m above the ground level.
C28_Witness ==
  /\ gameState.isRunning
  /\ ~physics.isGrounded
  /\ physics.playerY = 65
  /\ physics.velocityY = -5
  /\ lastFrame.rendered

\* C29: the player's boundary (35) is another constant than the enemies'
\* (45) and the smaller of the two: the player is kept at least 15 m from
\* every wall, by updatePlayerMovement from wherever it stands, while an
\* enemy is kept at least 5 m from every wall by its constructor, its
\* update and its respawn, and every position the player's clamp leaves
\* alone the enemies' clamp leaves alone too.
C29_PlayerBoundSmaller ==
  /\ PlayerBoundary < RobotBoundary
  /\ WallMargin(camera) >= ArenaWall - PlayerBoundary
  /\ \A movement \in Movements :
       WallMargin(updatePlayerMovement(camera, movement)) >= ArenaWall - PlayerBoundary
  /\ \A i \in 1 .. Len(enemy) : WallMargin(enemy[i]) >= ArenaWall - RobotBoundary
  /\ \A offset \in SpawnOffsets :
       WallMargin(spawnPosition(camera, offset)) >= ArenaWall - RobotBoundary
  /\ \A position \in Positions :
       clampPosition(position, PlayerBoundary) = position
         => clampPosition(position, RobotBoundary) = position

\* The player stands at the north limit of its range, 15 m from the wall,
\* and an enemy 5 m from that wall, 10 m behind the limit of the player.
C29_Witness ==
  /\ camera.z = -PlayerBoundary
  /\ enemy # <<>>
  /\ enemy[1].z = -RobotBoundary
  /\ WallMargin(enemy[1]) < WallMargin(camera)

\* C29 as the specification words it: the player's boundary is the larger
\* one, so that no enemy is ever nearer a wall than the player can get.
C29_PlayerBoundLarger ==
  /\ PlayerBoundary > RobotBoundary
  /\ \A i \in 1 .. Len(enemy) : WallMargin(enemy[i]) >= ArenaWall - PlayerBoundary

\* The list positions of the enemies of list that are alive, a dying
\* enemy whose death animation has not ended included.
AlivePositions(list) == {i \in 1 .. Len(list) : list[i].alive}

\* kept holds the enemies of list at the positions of from, in the order
\* of list.
RECURSIVE KeepsInOrder(_, _, _)
KeepsInOrder(list, from, kept) ==
  IF from = {} THEN kept = <<>>
  ELSE LET i == CHOOSE j \in from : \A k \in from : j <= k
       IN  /\ kept # <<>>
           /\ Head(kept) = list[i]
           /\ KeepsInOrder(list, from \ {i}, Tail(kept))

\* C30: the purge of a list that has been purged changes nothing: the
\* list between two events is one, and so is the purge of the list any
\* frame of a running, unpaused game has updated; that purge keeps every
\* enemy that is alive, the dying ones included, in the order of the list,
\* and removes the others only.
C30_PurgeIdempotent ==
  /\ purge(robots) = robots
  /\ (gameState.isRunning /\ ~gameState.isPaused) =>
       \A deltaTime \in DeltaTimes \cup LongDeltaTimes, near \in SUBSET (1 .. Len(robots)) :
         LET list == updateRobots(spawnStep(World, deltaTime, PlainRobot),
                                  1, deltaTime, near).robots
         IN  /\ purge(purge(list)) = purge(list)
             /\ KeepsInOrder(list, AlivePositions(list), purge(list))
             /\ \A i \in 1 .. Len(list) :
                  (list[i].dying /\ list[i].dyingTimer <= DyingLimit) => i \in AlivePositions(list)

\* A running game with two dying enemies: the next frame of one second
\* ends the death animation of the first one, which the purge removes, and
\* not that of the second one, which the purge keeps.
C30_Witness ==
  /\ gameState.isRunning /\ ~gameState.isPaused
  /\ Len(robots) = 2
  /\ robots[1].dying /\ robots[1].dyingTimer = 10
  /\ robots[2].dying /\ robots[2].dyingTimer = 0
  /\ LET list == updateRobots(spawnStep(World, 10, PlainRobot), 1, 10, {}).robots
     IN  /\ ~list[1].alive
         /\ list[2].alive /\ list[2].dying
         /\ Len(purge(list)) = Len(list) - 1
         /\ purge(list)[1] = list[2]

\* C31: adSession.revivesUsed is at most maxRevives in every reachable
\* state, whatever the order of the revive requests and of the completions
\* of the ads.
C31_RevivesWithinLimit == adSession.revivesUsed <= MaxRevives

\* C32: the revive progress counter stays below reviveAdCount = 2; it is
\* 0 after startGame and after a grant and grows by one with a completed
\* revive ad only.  A revive ad that completes at progress 0 leaves
\* gameState as it is (isRunning, health), grants nothing, reports the
\* progress 1 and sets the retry timer; one that completes at progress 1
\* grants the revive: health floor(maxHealth * 0.5), isRunning true,
\* progress 0.  No other step grants a revive.
C32_ReviveAfterTwoAds ==
  /\ [](/\ adSession.currentReviveAdCount \in 0 .. (ReviveAdCount - 1)
        /\ \A i \in 1 .. Len(timers) :
             (timers[i].kind = "rewarded" /\ timers[i].type = "revive") =>
               LET w == rewardedAdDone([World EXCEPT !.timers = Remove(@, i)], "revive")
               IN  IF adSession.currentReviveAdCount + 1 < ReviveAdCount
                   THEN /\ w.gs = gameState
                        /\ w.ads.revivesUsed = adSession.revivesUsed
                        /\ w.ads.currentReviveAdCount = adSession.currentReviveAdCount + 1
                        /\ w.ui.reviveModal = ui.reviveModal
                        /\ w.timers = Remove(timers, i) \o <<Timer("retry", "revive")>>
                   ELSE /\ 2 * w.gs.health <= gameState.maxHealth
                        /\ gameState.maxHealth < 2 * (w.gs.health + 1)
                        /\ w.gs.isRunning
                        /\ ~w.ui.reviveModal
                        /\ w.ads.currentReviveAdCount = 0
                        /\ w.ads.revivesUsed = adSession.revivesUsed + 1)
  /\ [][/\ adSession'.revivesUsed > adSession.revivesUsed =>
            /\ adSession.currentReviveAdCount = ReviveAdCount - 1
            /\ adSession'.currentReviveAdCount = 0
            /\ adSession'.adsWatched = adSession.adsWatched + 1
            /\ adSession'.revivesUsed = adSession.revivesUsed + 1
        /\ adSession'.currentReviveAdCount > adSession.currentReviveAdCount =>
            /\ adSession'.currentReviveAdCount = adSession.currentReviveAdCount + 1
            /\ adSession'.adsWatched = adSession.adsWatched + 1
            /\ adSession'.revivesUsed = adSession.revivesUsed
            /\ gameState' = gameState
        /\ adSession'.currentReviveAdCount < adSession.currentReviveAdCount =>
            \/ adSession'.revivesUsed = adSession.revivesUsed + 1
            \/ adSession' = NewAdSession]_vars

\* A player revived by the second of two revive ads, no other ad watched:
\* half the health, the game running, the progress back at 0.
C32_Witness ==
  /\ adSession.revivesUsed = 1
  /\ adSession.adsWatched = 2
  /\ adSession.currentReviveAdCount = 0
  /\ gameState.isRunning
  /\ gameState.health = 50
  /\ ~ui.reviveModal
  /\ timers = <<>>

\* C33: adSession.extraLivesUsed is at most maxExtraLives in every
\* reachable state, whatever the order of the extra-life requests, of the
\* completions of the ads and of startGame.
C33_ExtraLivesWithinLimit == adSession.extraLivesUsed <= MaxExtraLives

\* C34: when the player dies, the revive modal is offered only if a revive
\* is still available (revivesUsed < maxRevives); once the revive has been
\* used, the next death goes straight to the final game-over screen; and
\* endGame called when the game is already not running changes nothing.
C34_ReviveOfferedWhileAvailable ==
  /\ [](~gameState.isRunning => endGame(World) = World)
  /\ [][(gameState.isRunning /\ ~gameState.isRunning') =>
          IF adSession.revivesUsed < MaxRevives
          THEN ui.reviveModal' /\ ~ui.reviveBtnDisabled'
          ELSE ~ui.reviveModal' /\ ui.gameoverScreen']_vars
  /\ [][(~ui.reviveModal /\ ui.reviveModal') =>
          gameState.isRunning /\ adSession.revivesUsed < MaxRevives]_vars

\* The second death of a session: the revive used, no ad pending, the
\* final game-over screen shown and no revive modal.
C34_Witness ==
  /\ adSession.revivesUsed = MaxRevives
  /\ timers = <<>>
  /\ gameState.health <= 0
  /\ ~gameState.isRunning
  /\ ui.gameoverScreen
  /\ ~ui.reviveModal

\* C35: the wave-transition interstitial is shown exactly when the newly
\* reached wave number is 4, 7, 10, ... (one more than a multiple of
\* waveAdInterval = 3), and at no other wave advance.
C35_WaveAdAtWaves4And7 ==
  [][gameState.wave' = gameState.wave + 1 =>
       ((Len(timers') = Len(timers) + 1 /\ ui.waveAdOverlay' /\ gameState.isPaused')
          <=> (gameState.wave' > 1 /\ gameState.wave' % WaveAdInterval = 1))]_vars

\* The frames of a state paused by the wave-transition ad: what animate()
\* returns for every frame length and attack range.
PausedFrames ==
  {animate(World, deltaTime, Still, PlainRobot, near, {}, {}) :
     deltaTime \in LongDeltaTimes, near \in {{}, 1 .. Len(robots)}}

\* C36 (as stated): while isPaused is set by the ad gate, every animation
\* frame still makes the render call, and only the gameplay effects of the
\* frame are skipped.
C36_PausedFrameRenders ==
  (gameState.isPaused /\ ui.waveAdOverlay) =>
    \A w \in PausedFrames :
      /\ w.frame.rendered
      /\ [w EXCEPT !.frame = lastFrame] = World

\* C36 (amended): while isPaused is set by the ad gate, an animation frame
\* only schedules the next one: it skips the gameplay effects and the
\* render call alike.
C36_PausedFrameSkipsRender ==
  (gameState.isPaused /\ ui.waveAdOverlay) =>
    \A w \in PausedFrames :
      /\ ~w.frame.rendered
      /\ [w EXCEPT !.frame = lastFrame] = World

\* A frame has run while the wave-transition ad of wave 3 was shown.
C36_Witness ==
  /\ gameState.isPaused
  /\ gameState.isRunning
  /\ ui.waveAdOverlay
  /\ gameState.wave = 3
  /\ Len(timers) = 1
  /\ lastFrame = NewFrame

\* C37 (as stated): for every enemy attackCooldown >= 0 at all times; the
\* decrement of an update never takes it below zero; an enemy attacks only
\* when its attackCooldown has reached zero, and the attack resets it to
\* 1.5 s.
C37_CooldownNeverNegative ==
  \A i \in 1 .. Len(robots) :
    /\ robots[i].attackCooldown >= 0
    /\ \A deltaTime \in ShortDeltaTimes, inRange \in BOOLEAN :
         LET w == update(World, i, deltaTime, inRange)
         IN  /\ w.robots[i].attackCooldown >= 0
             /\ w.gs.health # gameState.health =>
                   /\ Max(0, robots[i].attackCooldown - deltaTime) = 0
                   /\ w.robots[i].attackCooldown = AttackCooldown

\* C37 (amended): for every enemy attackCooldown is at most 1.5 s and above
\* minus the length of a frame; an update decrements it by deltaTime only
\* while it is positive, so it can end below zero, and leaves it as it is
\* once it is zero or less; an enemy attacks only when its attackCooldown,
\* after that decrement, is zero or less, and the attack resets it to
\* 1.5 s.
C37_CooldownDecrementedWhilePositive ==
  \A i \in 1 .. Len(robots) :
    /\ robots[i].attackCooldown <= AttackCooldown
    /\ \E d \in ShortDeltaTimes : robots[i].attackCooldown > -d
    /\ \A deltaTime \in ShortDeltaTimes, inRange \in BOOLEAN :
         LET w == update(World, i, deltaTime, inRange)
             cooled == IF robots[i].attackCooldown > 0
                       THEN robots[i].attackCooldown - deltaTime
                       ELSE robots[i].attackCooldown
         IN  IF w.gs.health # gameState.health
             THEN /\ cooled <= 0
                  /\ inRange
                  /\ w.robots[i].attackCooldown = AttackCooldown
             ELSE robots[i].dying \/ w.robots[i].attackCooldown = cooled

\* An enemy that has attacked and then stayed out of range for two frames
\* of one second: its attackCooldown is 1.5 s - 1 s - 1 s.
C37_Witness ==
  /\ gameState.isRunning
  /\ gameState.health < gameState.maxHealth
  /\ \E i \in 1 .. Len(robots) :
       /\ ~robots[i].dying
       /\ robots[i].attackCooldown = -5
       /\ robots[i].sinceAttack = AttackCooldown

\* C38: wave = 1 + floor(kills / 5) at all times; a correct hit raises
\* kills by one, and wave by one when kills reaches a multiple of 5;
\* within a session neither kills nor wave decreases (only startGame takes
\* them back to 0 and 1); a revive changes neither.
C38_WaveFromKills ==
  /\ [](gameState.wave = 1 + gameState.kills \div KillsPerWave)
  /\ [][(gameState'.kills # gameState.kills \/ gameState'.wave # gameState.wave) =>
          \/ /\ gameState'.kills = gameState.kills + 1
             /\ gameState'.wave = gameState.wave +
                   (IF gameState'.kills % KillsPerWave = 0 THEN 1 ELSE 0)
          \/ /\ gameState'.kills = 0
             /\ gameState'.wave = 1
             /\ gameState'.isRunning
             /\ adSession' = NewAdSession
             /\ ui.startScreen \/ ui.gameoverScreen]_vars
  /\ [][adSession'.revivesUsed > adSession.revivesUsed =>
          /\ gameState'.kills = gameState.kills
          /\ gameState'.wave = gameState.wave]_vars

\* A session revived at wave 2: five kills, then death, two ads and the
\* revive.
C38_Witness ==
  /\ gameState.isRunning
  /\ adSession.revivesUsed = 1
  /\ gameState.kills = KillsPerWave
  /\ gameState.wave = 2
  /\ gameState.health = gameState.maxHealth \div 2
  /\ timers = <<>>

\* C39: once showFinalGameOver has been entered, isRunning stays false
\* until the next startGame, whatever revive or extra-life timers and
\* partial-progress callbacks are pending: the game never runs while the
\* final game-over screen is shown, which only startGame takes away.
C39_GameOverStaysStopped == ui.gameoverScreen => ~gameState.isRunning
====
